---- MODULE Spec2Model ----
(***************************************************************************)
(* Model of the embedded key-value store of redru: InMemoryDB (src/db.rs)  *)
(* with its persistence file, temporary file and backups, and HashIndex    *)
(* (src/hash_index.rs) with its integrity records.                         *)
(*                                                                         *)
(* A file's content is a sequence of tokens, each a triple                 *)
(* <<tag, text, number>>.  The file system is one function from the paths  *)
(* that exist to their content.                                            *)
(***************************************************************************)
EXTENDS Integers, Sequences, FiniteSets, TLC

\* ------------------------------------------------------------------ bounds

\* The clock (unix seconds) runs from 1 to MaxClock.
MaxClock == 2
\* Number of external overwrites of the primary file in one behaviour.
MaxTamper == 1
\* Number of save_data_hash calls in one behaviour.
MaxHashWrites == 1
\* Number of calls of the store's operations in one behaviour.
MaxOps == 4
\* Number of I/O failures and process ends in one behaviour.
MaxFaults == 1

\* Number of items of a JSON array and of members of a JSON object.
MaxItems == 2
\* Nesting depth of the JSON values that are hashed.
MaxDepth == 2

\* Number of characters of a field path.
MaxPath == 3
MaxRange == 3

\* the keys of the model, in lexicographic order
SortedKeys == <<"a", "b">>
Keys == {SortedKeys[i] : i \in DOMAIN SortedKeys}
Values == {1, 2}

\* ------------------------------------------------------------------ bytes

LB == <<"{", "", 0>>
RB == <<"}", "", 0>>
WS == <<" ", "", 0>>
\* text that is no JSON ("invalid json content", src/tests.rs:259)
JUNK == <<"junk", "", 0>>
\* a byte sequence that is not UTF-8
BAD == <<"xFF", "", 0>>
KV(k, v) == <<"kv", k, v>>

EmptyMap == [k \in {} |-> 0]

Max(S) == CHOOSE x \in S : \A y \in S : y <= x

\* All orders in which a HashMap with key set D can be iterated.
Orders(D) ==
    {s \in [1..Cardinality(D) -> D] : \A i, j \in DOMAIN s : s[i] = s[j] => i = j}

\* The entries of a map, written in the given iteration order.
SerializeEntriesDropLast(m, order) ==
    [i \in 1..(Len(order) - 1) |-> KV(order[i], m[order[i]])]

SerializeEntries(m, order) ==
    [i \in 1..Len(order) |-> KV(order[i], m[order[i]])]

\* serde_json::to_string_pretty(&self.storage)
ToStringPretty(m, order) == <<LB>> \o SerializeEntries(m, order) \o <<RB>>

Serializations(m) == {ToStringPretty(m, o) : o \in Orders(DOMAIN m)}

Prefixes(c) == {SubSeq(c, 1, n) : n \in 0..Len(c)}

\* fs::read_to_string succeeds only on UTF-8
IsUtf8(c) == \A i \in DOMAIN c : c[i] # BAD

\* content.trim().is_empty()
IsBlank(c) == \A i \in DOMAIN c : c[i] = WS

\* serde_json::from_str::<HashMap<String, Value>> succeeds
IsObject(c) ==
    /\ IsUtf8(c)
    /\ Len(c) >= 2
    /\ c[1] = LB
    /\ c[Len(c)] = RB
    /\ \A i \in 2..(Len(c) - 1) : c[i][1] = "kv"

\* the map serde_json::from_str builds: a repeated key keeps its last value
FromStr(c) ==
    LET idx == 2..(Len(c) - 1)
        ks == {c[i][2] : i \in idx}
    IN  [k \in ks |-> c[Max({i \in idx : c[i][2] = k})][3]]

\* ------------------------------------------------------------------ paths

NoPath == ""
Stem == "db"
\* the persistence file of the store
Path == Stem \o ".json"

\* path.with_extension("tmp")
TempPathSame(path) == path

TempPathOf(path) == Stem \o ".tmp"

\* path.with_extension(format!("backup.{}", timestamp))
BackupPath(ts) == Stem \o ".backup." \o ToString(ts)

\* self.hash_dir.join(format!("{}.hash", filename))
HashPath(name) == "hashes/" \o name \o ".hash"

\* ------------------------------------------------------------------ state

VARIABLES
    storage,           \* InMemoryDB.storage: the key -> value mapping
    persistence_file,  \* InMemoryDB.persistence_file: NoPath or Path
    auto_save,         \* InMemoryDB.auto_save
    backup_enabled,    \* InMemoryDB.backup_enabled
    fs,                \* the files that exist: path -> content
    clock,             \* SystemTime::now() in seconds
    pc,                \* position of the store inside save_to_file
    op,                \* the operation running or last completed
    res,               \* its result
    json_data,         \* save_to_file's local json_data
    last_saved,        \* the mapping of the last save that reached the primary file,
                       \* and whether that file was overwritten from outside since
    snap,              \* the files as repair_file found them
    tampers,           \* external overwrites so far
    hash_writes,       \* save_data_hash calls so far
    ops,               \* calls of the store's operations so far
    faults,            \* I/O failures and process ends so far
    indexes,           \* HashIndex.indexes: name -> (hash -> keys)
    index_order,       \* the order in which each index's HashMap iterates its hashes
    failed_at,         \* the step of save_to_file at which the running call's save failed
    writers,           \* the store instances that share one path, when there are several
    args               \* the key and value the operation was called with

vars == <<storage, persistence_file, auto_save, backup_enabled, fs, clock, pc, op,
          res, json_data, last_saved, snap, tampers, hash_writes, writers, ops,
          faults, indexes, index_order, failed_at, args>>

\* an operation that takes no key and no value
NoArgs == <<"", 0>>

NoFiles == [p \in {} |-> <<>>]
NoWriters == [w \in {} |-> <<>>]
NoIndexes == [n \in {} |-> <<>>]
NeverSaved == [valid |-> FALSE, data |-> EmptyMap, overwritten |-> FALSE]

Exists(f, p) == p \in DOMAIN f

\* self.persistence_file.is_some()
Persistent == persistence_file # NoPath

\* File::create / fs::write / fs::copy target: the file p now holds c
WriteFile(f, p, c) == [q \in DOMAIN f \cup {p} |-> IF q = p THEN c ELSE f[q]]

\* fs::remove_file
RemoveFile(f, p) == [q \in DOMAIN f \ {p} |-> f[q]]

\* fs::rename(from, to)
RenameFile(f, from, to) ==
    [q \in (DOMAIN f \ {from}) \cup {to} |-> IF q = to THEN f[from] ELSE f[q]]

\* HashMap::insert
PutIfAbsent(m, k, v) == [x \in DOMAIN m \cup {k} |-> IF x \in DOMAIN m THEN m[x] ELSE v]

Put(m, k, v) == [x \in DOMAIN m \cup {k} |-> IF x = k THEN v ELSE m[x]]

\* HashMap::remove
RemoveKeepsKey(m, k) == m

Remove(m, k) == [x \in DOMAIN m \ {k} |-> m[x]]

\* ------------------------------------------------------------------ accessors

Get(k) == IF k \in DOMAIN storage THEN {storage[k]} ELSE {}

\* self.storage.contains_key(key)
KeyExistsAlways(k) == TRUE

KeyExists(k) == k \in DOMAIN storage
StoreKeys == DOMAIN storage
StoreLen == Cardinality(DOMAIN storage)
IsEmpty == DOMAIN storage = {}

\* ------------------------------------------------------------------ load

\* load_from_file: the result and the storage it leaves, from storage s
LoadClearsOnError(s) ==
    IF persistence_file = NoPath \/ ~Exists(fs, Path) THEN [res |-> "ok", storage |-> s]
    ELSE IF IsBlank(fs[Path]) THEN [res |-> "ok", storage |-> EmptyMap]
    ELSE IF IsObject(fs[Path]) THEN [res |-> "ok", storage |-> FromStr(fs[Path])]
    ELSE [res |-> "err", storage |-> EmptyMap]

LoadFromFile(s) ==
    IF persistence_file = NoPath THEN [res |-> "ok", storage |-> s]
    ELSE IF ~Exists(fs, Path) THEN [res |-> "ok", storage |-> s]
    ELSE IF ~IsUtf8(fs[Path]) THEN [res |-> "err", storage |-> s]
    ELSE IF IsBlank(fs[Path]) THEN [res |-> "ok", storage |-> EmptyMap]
    ELSE IF IsObject(fs[Path]) THEN [res |-> "ok", storage |-> FromStr(fs[Path])]
    ELSE [res |-> "err", storage |-> s]

\* validate_file_integrity
ValidateAlwaysTrue == "true"

ValidateFileIntegrity ==
    IF persistence_file = NoPath THEN "true"
    ELSE IF ~Exists(fs, Path) THEN "false"
    ELSE IF ~IsUtf8(fs[Path]) THEN "err"
    ELSE IF IsBlank(fs[Path]) THEN "true"
    ELSE IF IsObject(fs[Path]) THEN "true"
    ELSE "false"

\* ------------------------------------------------------------------ repair

\* the timestamps of the backups of the persistence file found by read_dir
BackupTimes(f) == {ts \in 1..MaxClock : Exists(f, BackupPath(ts))}

\* fs::read_to_string and serde_json::from_str both succeed on the backup
BackupParses(f, ts) == IsObject(f[BackupPath(ts)])

RepairChoice(f) ==
    LET good == {ts \in BackupTimes(f) : BackupParses(f, ts)}
    IN  IF good = {} THEN 0 ELSE Max(good)

\* the storage repair_file installs before it saves
RepairKeepStorage(f) == storage

RepairChecksPrimary(f) ==
    IF Exists(f, Path) /\ IsObject(f[Path]) THEN FromStr(f[Path])
    ELSE IF RepairChoice(f) = 0 THEN EmptyMap
    ELSE FromStr(f[BackupPath(RepairChoice(f))])

RepairStorage(f) ==
    IF RepairChoice(f) = 0 THEN EmptyMap ELSE FromStr(f[BackupPath(RepairChoice(f))])

\* ------------------------------------------------------------------ integrity records

\* keys.sort(): every key a record set of the model has, in lexicographic order
DigestKeys == <<"a", "a1", "b">>

\* serde_json::to_vec of a number: its decimal digits
ToVec(value) == ToString(value)

\* create_data_hash: the bytes fed to SHA-256 from the i-th sorted key on, each
\* key's bytes followed at once by the bytes of its value
RECURSIVE DataHashFeed(_, _)
DataHashFeed(data, i) ==
    IF i > Len(DigestKeys) THEN ""
    ELSE LET key == DigestKeys[i]
         IN  (IF key \in DOMAIN data THEN key \o ToVec(data[key]) ELSE "")
                 \o DataHashFeed(data, i + 1)

\* format!("{:x}", hasher.finalize()), SHA-256 taken as injective on what it is fed
Sha256(feed) == <<<<"sha256", "", 0>>>> \o feed

CreateDataHash(data) == Sha256(<<<<"bytes", DataHashFeed(data, 1), 0>>>>)

\* verify_data_integrity(filename, data)
VerifyDataIntegrity(filename, data) ==
    /\ Exists(fs, HashPath(filename))
    /\ fs[HashPath(filename)] = CreateDataHash(data)

\* ------------------------------------------------------------------ store operations

Idle == pc = "idle"

\* a caller invokes an operation of the store
Call ==
    /\ Idle
    /\ ops < MaxOps
    /\ ops' = ops + 1
    /\ failed_at' = ""

\* an I/O call fails, or the process ends
Fault ==
    /\ faults < MaxFaults
    /\ faults' = faults + 1

Done(o, r) ==
    /\ pc' = "idle"
    /\ op' = o
    /\ res' = r
    /\ json_data' = <<>>

\* the value a mutation returns when its save succeeded
OkResult(o) == IF o = "update" THEN "true" ELSE "ok"

\* self.save_to_file() entered by operation o
CallSaveToFileAnyway(o) ==
    /\ pc' = "backup"
    /\ op' = o
    /\ res' = "pending"
    /\ json_data' = <<>>

CallSaveToFile(o) ==
    IF persistence_file # NoPath
    THEN /\ pc' = "backup"
         /\ op' = o
         /\ res' = "pending"
         /\ json_data' = <<>>
    ELSE Done(o, OkResult(o))

\* if self.auto_save && self.persistence_file.is_some()
AutoSaveNever == FALSE

AutoSaveAlways == persistence_file # NoPath

ShouldAutoSave == auto_save /\ persistence_file # NoPath

AfterMutation(o) ==
    IF ShouldAutoSave THEN CallSaveToFile(o) ELSE Done(o, OkResult(o))

Frame == UNCHANGED <<persistence_file, auto_save, backup_enabled, fs, clock,
                     last_saved, tampers, hash_writes, writers, indexes, index_order>>

NoFault == UNCHANGED faults

InsertAfterSave(k, v) ==
    /\ Call
    /\ args' = <<k, v>>
    /\ NoFault
    /\ storage' = IF ShouldAutoSave THEN storage ELSE Put(storage, k, v)
    /\ AfterMutation("insert")
    /\ snap' = NoFiles
    /\ Frame

Insert(k, v) ==
    /\ Call
    /\ args' = <<k, v>>
    /\ NoFault
    /\ storage' = Put(storage, k, v)
    /\ AfterMutation("insert")
    /\ snap' = NoFiles
    /\ Frame

\* a delete that saves only when it removed something
DeleteIfPresent(k) ==
    /\ Call
    /\ args' = <<k, 0>>
    /\ NoFault
    /\ storage' = Remove(storage, k)
    /\ IF KeyExists(k) THEN AfterMutation("delete") ELSE Done("delete", "ok")
    /\ snap' = NoFiles
    /\ Frame

Delete(k) ==
    /\ Call
    /\ args' = <<k, 0>>
    /\ NoFault
    /\ storage' = Remove(storage, k)
    /\ AfterMutation("delete")
    /\ snap' = NoFiles
    /\ Frame

Update(k, v) ==
    /\ Call
    /\ args' = <<k, v>>
    /\ NoFault
    /\ IF KeyExists(k)
       THEN /\ storage' = Put(storage, k, v)
            /\ AfterMutation("update")
       ELSE /\ storage' = storage
            /\ Done("update", "false")
    /\ snap' = NoFiles
    /\ Frame

Clear ==
    /\ Call
    /\ args' = NoArgs
    /\ NoFault
    /\ storage' = EmptyMap
    /\ AfterMutation("clear")
    /\ snap' = NoFiles
    /\ Frame

Save ==
    /\ Call
    /\ args' = NoArgs
    /\ NoFault
    /\ CallSaveToFile("save")
    /\ snap' = NoFiles
    /\ UNCHANGED storage
    /\ Frame

Reload ==
    /\ Call
    /\ args' = NoArgs
    /\ NoFault
    /\ storage' = LoadFromFile(storage).storage
    /\ Done("reload", LoadFromFile(storage).res)
    /\ snap' = NoFiles
    /\ Frame

Validate ==
    /\ Call
    /\ args' = NoArgs
    /\ NoFault
    /\ Done("validate", ValidateFileIntegrity)
    /\ snap' = NoFiles
    /\ UNCHANGED storage
    /\ Frame

SetAutoSave(b) ==
    /\ Call
    /\ args' = NoArgs
    /\ NoFault
    /\ auto_save' = b
    /\ Done("set_auto_save", "ok")
    /\ snap' = NoFiles
    /\ UNCHANGED <<storage, persistence_file, backup_enabled, fs, clock, last_saved,
                   tampers, hash_writes, writers, indexes, index_order>>

SetBackupEnabled(b) ==
    /\ Call
    /\ args' = NoArgs
    /\ NoFault
    /\ backup_enabled' = b
    /\ Done("set_backup_enabled", "ok")
    /\ snap' = NoFiles
    /\ UNCHANGED <<storage, persistence_file, auto_save, fs, clock, last_saved,
                   tampers, hash_writes, writers, indexes, index_order>>

\* repair_file up to its call of save_to_file
RepairFile ==
    /\ Call
    /\ args' = NoArgs
    /\ IF persistence_file = NoPath
       THEN /\ Done("repair", "ok")
            /\ snap' = NoFiles
            /\ UNCHANGED storage
            /\ NoFault
       ELSE \/ \* fs::read_dir(parent)? fails
               /\ Fault
               /\ Done("repair", "err")
               /\ snap' = NoFiles
               /\ UNCHANGED storage
            \/ /\ NoFault
               /\ storage' = RepairStorage(fs)
               /\ snap' = fs
               /\ CallSaveToFile("repair")
    /\ Frame

\* ------------------------------------------------------------------ save_to_file, step by step

InSave(at) == pc = at /\ persistence_file # NoPath

\* what no step of save_to_file changes, and the step recorded when the step fails
SaveFrame ==
    /\ UNCHANGED <<storage, persistence_file, auto_save, backup_enabled, clock,
                   snap, tampers, hash_writes, writers, indexes, index_order, ops, args>>
    /\ failed_at' = IF faults' # faults THEN pc ELSE failed_at

\* self.create_backup(path)?
CreateBackupSkipped ==
    /\ InSave("backup")
    /\ pc' = "create"
    /\ NoFault
    /\ UNCHANGED <<fs, op, res, json_data, last_saved>>
    /\ SaveFrame

CreateBackupRegardless ==
    /\ InSave("backup")
    /\ IF Exists(fs, Path)
       THEN fs' = WriteFile(fs, BackupPath(clock), fs[Path])
       ELSE fs' = fs
    /\ pc' = "create"
    /\ NoFault
    /\ UNCHANGED <<op, res, json_data, last_saved>>
    /\ SaveFrame

\* a save that creates the temporary file before it copies the backup
CreateBackupLate ==
    /\ InSave("backup")
    /\ IF ~backup_enabled \/ ~Exists(fs, Path)
       THEN /\ pc' = "create"
            /\ NoFault
            /\ UNCHANGED <<fs, op, res, json_data>>
       ELSE \/ /\ NoFault
               /\ fs' = WriteFile(fs, BackupPath(clock), fs[Path])
               /\ pc' = "create"
               /\ UNCHANGED <<op, res, json_data>>
            \/ /\ Fault
               /\ Done(op, "err")
               /\ fs' = WriteFile(fs, TempPathOf(Path), <<>>)
    /\ UNCHANGED last_saved
    /\ SaveFrame

CreateBackup ==
    /\ InSave("backup")
    /\ IF ~backup_enabled \/ ~Exists(fs, Path)
       THEN /\ pc' = "create"
            /\ NoFault
            /\ UNCHANGED <<fs, op, res, json_data>>
       ELSE \/ \* fs::copy succeeds
               /\ NoFault
               /\ fs' = WriteFile(fs, BackupPath(clock), fs[Path])
               /\ pc' = "create"
               /\ UNCHANGED <<op, res, json_data>>
            \/ \* fs::copy fails before it creates the copy
               /\ Fault
               /\ Done(op, "err")
               /\ UNCHANGED fs
            \/ \* fs::copy fails after it wrote a part of the copy
               /\ Fault
               /\ \E n \in 0..(Len(fs[Path]) - 1) :
                      fs' = WriteFile(fs, BackupPath(clock), SubSeq(fs[Path], 1, n))
               /\ Done(op, "err")
    /\ UNCHANGED last_saved
    /\ SaveFrame

\* serde_json::to_string_pretty, then File::create(&temp_path)
CreateTemp ==
    /\ InSave("create")
    /\ \/ /\ NoFault
          /\ \E c \in Serializations(storage) : json_data' = c
          /\ fs' = WriteFile(fs, TempPathOf(Path), <<>>)
          /\ pc' = "write"
          /\ UNCHANGED <<op, res>>
       \/ /\ Fault
          /\ Done(op, "err")
          /\ UNCHANGED fs
    /\ UNCHANGED last_saved
    /\ SaveFrame

\* what the temporary file may hold when a write of json_data through the
\* BufWriter stopped half way: a part of json_data that extends what is there
Written(f) ==
    {c \in Prefixes(json_data) : Len(c) >= Len(f[TempPathOf(Path)])}

\* writer.write_all(json_data.as_bytes()): a BufWriter keeps data shorter than its
\* buffer and hands longer data to the file at once
WriteAll ==
    /\ InSave("write")
    /\ \/ /\ NoFault
          /\ fs' \in {fs, WriteFile(fs, TempPathOf(Path), json_data)}
          /\ pc' = "flush"
          /\ UNCHANGED <<op, res, json_data>>
       \/ /\ Fault
          /\ \E c \in Written(fs) : fs' = WriteFile(fs, TempPathOf(Path), c)
          /\ Done(op, "err")
    /\ UNCHANGED last_saved
    /\ SaveFrame

\* writer.flush()
Flush ==
    /\ InSave("flush")
    /\ \/ /\ NoFault
          /\ fs' = WriteFile(fs, TempPathOf(Path), json_data)
          /\ pc' = "rename"
          /\ UNCHANGED <<op, res, json_data>>
       \/ /\ Fault
          /\ \E c \in Written(fs) : fs' = WriteFile(fs, TempPathOf(Path), c)
          /\ Done(op, "err")
    /\ UNCHANGED last_saved
    /\ SaveFrame

\* fs::rename(&temp_path, path), with the removal of the temporary file on failure
RenameLosesPrimary ==
    /\ InSave("rename")
    /\ \/ /\ NoFault
          /\ fs' = RenameFile(fs, TempPathOf(Path), Path)
          /\ last_saved' = [valid |-> TRUE, data |-> storage, overwritten |-> FALSE]
          /\ Done(op, OkResult(op))
       \/ /\ Fault
          /\ fs' = RemoveFile(RemoveFile(fs, TempPathOf(Path)), Path)
          /\ Done(op, "err")
          /\ UNCHANGED last_saved
    /\ SaveFrame

Rename ==
    /\ InSave("rename")
    /\ \/ /\ NoFault
          /\ fs' = RenameFile(fs, TempPathOf(Path), Path)
          /\ last_saved' = [valid |-> TRUE, data |-> storage, overwritten |-> FALSE]
          /\ Done(op, OkResult(op))
       \/ /\ Fault
          /\ fs' \in {RemoveFile(fs, TempPathOf(Path)), fs}
          /\ Done(op, "err")
          /\ UNCHANGED last_saved
    /\ SaveFrame

\* ------------------------------------------------------------------ process and environment

\* the files a process leaves that ends at pc: a copy or a write under way is cut
\* short, everything else is as the last step left it
CrashFiles ==
    IF pc = "backup" /\ Persistent /\ backup_enabled /\ Exists(fs, Path)
    THEN {fs} \cup {WriteFile(fs, BackupPath(clock), SubSeq(fs[Path], 1, n)) :
                        n \in 0..(Len(fs[Path]) - 1)}
    ELSE IF pc \in {"write", "flush"} /\ Persistent
    THEN {WriteFile(fs, TempPathOf(Path), c) : c \in Written(fs)}
    ELSE {fs}

\* the process ends, at any point
Crash ==
    /\ pc # "crashed"
    /\ Fault
    /\ pc' = "crashed"
    /\ op' = "crash"
    /\ res' = "none"
    /\ json_data' = <<>>
    /\ storage' = EmptyMap
    /\ snap' = NoFiles
    /\ indexes' = NoIndexes
    /\ index_order' = NoIndexes
    /\ args' = NoArgs
    /\ fs' \in CrashFiles
    /\ UNCHANGED <<ops, persistence_file, auto_save, backup_enabled, clock, last_saved,
                   tampers, hash_writes, writers, failed_at>>

\* InMemoryDB::new() in a new process
New ==
    /\ pc = "crashed"
    /\ persistence_file = NoPath
    /\ storage' = EmptyMap
    /\ auto_save' = TRUE
    /\ backup_enabled' = FALSE
    /\ Done("new", "ok")
    /\ UNCHANGED <<persistence_file, fs, clock, last_saved, snap, tampers, hash_writes, writers, indexes, index_order, failed_at, ops,
                   faults, args>>

\* InMemoryDB::new_with_persistence(Path) in a new process.  Its load fails only
\* on a file that exists, so the save of lines 51-54 is never entered.
NewWithPersistence ==
    /\ pc = "crashed"
    /\ persistence_file # NoPath
    /\ storage' = LoadFromFile(EmptyMap).storage
    /\ auto_save' = TRUE
    /\ backup_enabled' = TRUE
    /\ Done("new", "ok")
    /\ UNCHANGED <<persistence_file, fs, clock, last_saved, snap, tampers, hash_writes, writers, indexes, index_order, failed_at, ops,
                   faults, args>>

\* what a test writes over the persistence file
TamperBytes == {<<>>, <<WS>>, <<JUNK>>, <<BAD>>, <<LB, KV("a", 2), RB>>}

\* fs::write(path, bytes) from outside the store
ExternalWrite(bytes) ==
    /\ Idle
    /\ persistence_file # NoPath
    /\ tampers < MaxTamper
    /\ tampers' = tampers + 1
    /\ fs' = WriteFile(fs, Path, bytes)
    /\ last_saved' = [valid |-> FALSE, data |-> EmptyMap,
                       overwritten |-> last_saved.valid \/ last_saved.overwritten]
    /\ Done("external_write", "none")
    /\ snap' = NoFiles
    /\ args' = NoArgs
    /\ UNCHANGED <<storage, persistence_file, auto_save, backup_enabled, clock, hash_writes, writers, indexes, index_order, failed_at,
                   ops, faults>>

\* the names under which a caller records the digest of the store
HashNames == {Path} \cup {BackupPath(ts) : ts \in 1..MaxClock}

\* save_data_hash(filename, &create_data_hash(&storage))
SaveDataHash(filename) ==
    /\ Idle
    /\ persistence_file # NoPath
    /\ hash_writes < MaxHashWrites
    /\ hash_writes' = hash_writes + 1
    /\ \/ fs' = WriteFile(fs, HashPath(filename), CreateDataHash(storage))
       \/ fs' = fs
    /\ Done("save_data_hash", "none")
    /\ snap' = NoFiles
    /\ UNCHANGED <<storage, persistence_file, auto_save, backup_enabled, clock, last_saved,
                   tampers, ops, faults,
                   indexes, index_order, failed_at, writers>>
    /\ args' = NoArgs

\* a second passes; the store reads the clock only on entering save_to_file, so
\* time passing between two calls covers every reading
Tick ==
    /\ Idle
    /\ clock < MaxClock
    /\ clock' = clock + 1
    /\ UNCHANGED <<storage, persistence_file, auto_save, backup_enabled, fs, pc, op, res,
                   json_data, last_saved, snap, tampers, hash_writes, writers, indexes, index_order, failed_at, ops,
                   faults, args>>

\* ------------------------------------------------------------------ HashIndex

IndexNames == {"idx"}

\* self.index_dir.join(format!("{}.json", index_name))
IndexFile(n) == "Indefx/" \o n \o ".json"
\* index_file.with_extension("tmp")
IndexTemp(n) == "Indefx/" \o n \o ".tmp"

\* hash_value of a number: the bytes fed to the hasher, the discriminant 2u8 and
\* the i64; the 64-bit hasher is taken as injective on them
HashValue(v) == <<2, v>>

NoBuckets == [h \in {} |-> <<>>]

\* one bucket of the index file: the hash, then its keys
BucketTokens(h, keys) ==
    [i \in 1..Len(h) |-> <<"h", "", h[i]>>] \o [i \in 1..Len(keys) |-> <<"k", keys[i], 0>>]

RECURSIVE BucketsJson(_, _, _)
BucketsJson(index, order, i) ==
    IF i > Len(order) THEN <<>>
    ELSE BucketTokens(order[i], index[order[i]]) \o BucketsJson(index, order, i + 1)

\* serde_json::to_string(index), the buckets in the map's iteration order
IndexJson(index, order) == <<LB>> \o BucketsJson(index, order, 1) \o <<RB>>

\* serde_json::to_string_pretty(index): the same with line breaks and indentation
\* once there is a bucket
IndexJsonPretty(index, order) ==
    IF order = <<>> THEN <<LB, RB>>
    ELSE <<LB, WS>> \o BucketsJson(index, order, 1) \o <<WS, RB>>

\* calculate_index_hash
CalculateIndexHash(index, order) == Sha256(IndexJson(index, order))

\* save_index returned Ok: index file renamed into place, hash record written
SaveIndexHashesFile(f, n, index, order) ==
    WriteFile(RenameFile(WriteFile(f, IndexTemp(n), IndexJsonPretty(index, order)),
                         IndexTemp(n), IndexFile(n)),
              HashPath(n), Sha256(IndexJsonPretty(index, order)))

\* a save_index that keeps its hash records under names of their own
SaveIndexApart(f, n, index, order) ==
    WriteFile(RenameFile(WriteFile(f, IndexTemp(n), IndexJsonPretty(index, order)),
                         IndexTemp(n), IndexFile(n)),
              HashPath("index." \o n), CalculateIndexHash(index, order))

SaveIndexOk(f, n, index, order) ==
    WriteFile(RenameFile(WriteFile(f, IndexTemp(n), IndexJsonPretty(index, order)),
                         IndexTemp(n), IndexFile(n)),
              HashPath(n), CalculateIndexHash(index, order))

\* save_index returned an error: at File::create, at the write or the flush, at the
\* rename (the temporary file removed or not), or at the write of the hash record
SaveIndexTornFile(f, n, index, order) ==
    {f} \cup {WriteFile(f, IndexFile(n), c) : c \in Prefixes(IndexJsonPretty(index, order))}

SaveIndexFailed(f, n, index, order) ==
    LET json == IndexJsonPretty(index, order)
        renamed == RenameFile(WriteFile(f, IndexTemp(n), json), IndexTemp(n), IndexFile(n))
    IN  {f}
        \cup {WriteFile(f, IndexTemp(n), c) : c \in Prefixes(json)}
        \cup {RemoveFile(f, IndexTemp(n))}
        \cup {renamed, WriteFile(renamed, HashPath(n), <<>>)}

\* self.save_index(index_name).unwrap_or(()) on the index as it will be
PersistIndex(n, index) ==
    \E order \in Orders(DOMAIN index) :
        /\ index_order' = Put(index_order, n, order)
        /\ \/ /\ NoFault
              /\ fs' = SaveIndexOk(fs, n, index, order)
           \/ /\ Fault
              /\ fs' \in SaveIndexFailed(fs, n, index, order)

IndexFrame == UNCHANGED <<storage, persistence_file, auto_save, backup_enabled, clock,
                          last_saved, tampers, hash_writes, writers>>

\* find_by_value
FindByValue(n, v) ==
    IF n \in DOMAIN indexes /\ HashValue(v) \in DOMAIN indexes[n]
    THEN indexes[n][HashValue(v)]
    ELSE <<>>

\* get_index_stats: <<unique_hashes, total_entries>>
RECURSIVE SumLen(_, _)
SumLen(index, hs) ==
    IF hs = {} THEN 0
    ELSE LET h == CHOOSE x \in hs : TRUE
         IN  Len(index[h]) + SumLen(index, hs \ {h})

GetIndexStats(n) ==
    <<Cardinality(DOMAIN indexes[n]), SumLen(indexes[n], DOMAIN indexes[n])>>

\* index.entry(hash).or_insert_with(Vec::new).push(key)
PushReplaces(index, h, k) ==
    [x \in DOMAIN index \cup {h} |-> IF x = h THEN <<k>> ELSE index[x]]

\* a push that leaves out a key the bucket already holds
PushUnique(index, h, k) ==
    [x \in DOMAIN index \cup {h} |->
        IF x = h
        THEN (IF h \notin DOMAIN index THEN <<k>>
              ELSE IF \E i \in DOMAIN index[h] : index[h][i] = k THEN index[h]
              ELSE Append(index[h], k))
        ELSE index[x]]

Push(index, h, k) ==
    [x \in DOMAIN index \cup {h} |->
        IF x = h THEN (IF h \in DOMAIN index THEN Append(index[h], k) ELSE <<k>>)
        ELSE index[x]]

\* keys.retain(|k| k != key)
Retain(keys, key) == SelectSeq(keys, LAMBDA k : k # key)

\* the bucket of h without key, the bucket deleted when it becomes empty
UnlinkNothing(index, h, key) == index

UnlinkKeepsBucket(index, h, key) ==
    IF h \notin DOMAIN index THEN index
    ELSE [index EXCEPT ![h] = Retain(index[h], key)]

Unlink(index, h, key) ==
    IF h \notin DOMAIN index THEN index
    ELSE IF Retain(index[h], key) = <<>>
    THEN [x \in DOMAIN index \ {h} |-> index[x]]
    ELSE [index EXCEPT ![h] = Retain(index[h], key)]

\* the buckets rebuild_index computes from the records, taken in the given order
RECURSIVE Rebuilt(_, _, _)
Rebuilt(records, order, i) ==
    IF i = 0 THEN NoBuckets
    ELSE Push(Rebuilt(records, order, i - 1), HashValue(records[order[i]]), order[i])

\* create_index
CreateIndexRetroactive(n) ==
    /\ Call
    /\ args' = NoArgs
    /\ \E order \in Orders(DOMAIN storage) :
           /\ indexes' = Put(indexes, n, Rebuilt(storage, order, Len(order)))
           /\ PersistIndex(n, Rebuilt(storage, order, Len(order)))
    /\ Done("create_index", "ok")
    /\ snap' = NoFiles
    /\ IndexFrame

CreateIndex(n) ==
    /\ Call
    /\ args' = NoArgs
    /\ indexes' = Put(indexes, n, NoBuckets)
    /\ PersistIndex(n, NoBuckets)
    /\ Done("create_index", "ok")
    /\ snap' = NoFiles
    /\ IndexFrame

\* drop_index: the index forgotten, its files removed as far as fs::remove_file
\* succeeds
DropIndex(n) ==
    /\ Call
    /\ args' = NoArgs
    /\ indexes' = Remove(indexes, n)
    /\ index_order' = Remove(index_order, n)
    /\ \/ /\ NoFault
          /\ fs' = RemoveFile(RemoveFile(fs, IndexFile(n)), HashPath(n))
       \/ /\ Fault
          /\ fs' \in {fs, RemoveFile(fs, IndexFile(n)), RemoveFile(fs, HashPath(n))}
    /\ Done("drop_index", "ok")
    /\ snap' = NoFiles
    /\ IndexFrame

AddToIndex(n, k, v) ==
    /\ Call
    /\ args' = <<k, v>>
    /\ IF n \in DOMAIN indexes
       THEN /\ indexes' = [indexes EXCEPT ![n] = Push(indexes[n], HashValue(v), k)]
            /\ PersistIndex(n, Push(indexes[n], HashValue(v), k))
       ELSE /\ NoFault
            /\ UNCHANGED <<indexes, index_order, fs>>
    /\ Done("add_to_index", "ok")
    /\ snap' = NoFiles
    /\ IndexFrame

RemoveFromIndex(n, k, v) ==
    /\ Call
    /\ args' = <<k, v>>
    /\ IF n \in DOMAIN indexes
       THEN /\ indexes' = [indexes EXCEPT ![n] = Unlink(indexes[n], HashValue(v), k)]
            /\ PersistIndex(n, Unlink(indexes[n], HashValue(v), k))
       ELSE /\ NoFault
            /\ UNCHANGED <<indexes, index_order, fs>>
    /\ Done("remove_from_index", "ok")
    /\ snap' = NoFiles
    /\ IndexFrame

RebuildIndex(n) ==
    /\ Call
    /\ args' = NoArgs
    /\ IF n \in DOMAIN indexes
       THEN \E order \in Orders(DOMAIN storage) :
                /\ indexes' = [indexes EXCEPT ![n] = Rebuilt(storage, order, Len(order))]
                /\ PersistIndex(n, Rebuilt(storage, order, Len(order)))
       ELSE /\ NoFault
            /\ UNCHANGED <<indexes, index_order, fs>>
    /\ Done("rebuild_index", "ok")
    /\ snap' = NoFiles
    /\ IndexFrame

ClearIndex(n) ==
    /\ Call
    /\ args' = NoArgs
    /\ IF n \in DOMAIN indexes
       THEN /\ indexes' = [indexes EXCEPT ![n] = NoBuckets]
            /\ PersistIndex(n, NoBuckets)
       ELSE /\ NoFault
            /\ UNCHANGED <<indexes, index_order, fs>>
    /\ Done("clear_index", "ok")
    /\ snap' = NoFiles
    /\ IndexFrame

\* verify_index_integrity: the index is registered, its file and its hash record
\* exist, and the record is the digest of the bucket map serialized as the map
\* iterates now (the digest written by save_index has no blanks to trim)
VerifyIndexIntegrity(n) ==
    /\ n \in DOMAIN indexes
    /\ Exists(fs, IndexFile(n))
    /\ Exists(fs, HashPath(n))
    /\ fs[HashPath(n)] = CalculateIndexHash(indexes[n], index_order[n])

VerifyIndex(n) ==
    /\ Call
    /\ args' = NoArgs
    /\ NoFault
    /\ Done("verify_index_integrity", IF VerifyIndexIntegrity(n) THEN "true" ELSE "false")
    /\ snap' = NoFiles
    /\ UNCHANGED <<indexes, index_order, fs>>
    /\ IndexFrame

\* ------------------------------------------------------------------ JSON values

\* A serde_json::Value is a node <<tag, text, number, children>>; the members of
\* an object are "mem" nodes, kept in the order in which the map yields them.
JNull == <<"null", "", 0, <<>>>>
JNum(n) == <<"num", "", n, <<>>>>
JStr(t) == <<"str", t, 0, <<>>>>
JArr(items) == <<"arr", "", 0, items>>
JMem(k, v) == <<"mem", k, 0, <<v>>>>
JObj(members) == <<"obj", "", 0, members>>

IsScalar(x) == x[1] \in {"null", "num", "str"}

\* obj.keys()
ObjKeys(x) == {x[4][i][2] : i \in DOMAIN x[4]}

\* obj[key]
ObjGet(x, k) == x[4][CHOOSE i \in DOMAIN x[4] : x[4][i][2] = k][4][1]

\* the sequences over S of length at most n
SeqsUpTo(S, n) == UNION {[1..m -> S] : m \in 0..n}

\* the member lists over values S: at most MaxItems members, no key twice
MemberLists(S) ==
    {ms \in SeqsUpTo({JMem(k, v) : k \in Keys, v \in S}, MaxItems) :
        \A i, j \in DOMAIN ms : ms[i][2] = ms[j][2] => i = j}

JsonScalars == {JNum(1), JNum(2), JStr("a")}

\* the JSON values nested at most d deep
RECURSIVE JsonValues(_)
JsonValues(d) ==
    IF d = 0 THEN JsonScalars
    ELSE LET S == JsonValues(d - 1)
         IN  S \cup {JArr(items) : items \in SeqsUpTo(S, MaxItems)}
               \cup {JObj(ms) : ms \in MemberLists(S)}

\* keys.sort(): the members in the lexicographic order of their keys
MembersUnsorted(ms, i) == ms

RECURSIVE SortMembers(_, _)
SortMembers(ms, i) ==
    IF i > Len(SortedKeys) THEN <<>>
    ELSE SelectSeq(ms, LAMBDA m : m[2] = SortedKeys[i]) \o SortMembers(ms, i + 1)

\* hash_json_value: what is fed to the hasher, as tokens <<kind, text, number>>
RECURSIVE HashJsonValue(_)
RECURSIVE HashEach(_, _)
HashEach(children, i) ==
    IF i > Len(children) THEN <<>>
    ELSE HashJsonValue(children[i]) \o HashEach(children, i + 1)

HashJsonValue(x) ==
    CASE x[1] = "null" -> <<<<"u8", "", 0>>>>
      [] x[1] = "num" -> <<<<"u8", "", 2>>, <<"i64", "", x[3]>>>>
      [] x[1] = "str" -> <<<<"u8", "", 3>>, <<"str", x[2], 0>>>>
      [] x[1] = "arr" -> <<<<"u8", "", 4>>, <<"usize", "", Len(x[4])>>>> \o HashEach(x[4], 1)
      [] x[1] = "obj" -> <<<<"u8", "", 5>>, <<"usize", "", Len(x[4])>>>>
                             \o HashEach(SortMembers(x[4], 1), 1)
      [] x[1] = "mem" -> <<<<"str", x[2], 0>>>> \o HashJsonValue(x[4][1])

\* ------------------------------------------------------------------ field paths

\* A field path is the sequence of its characters.
Dot == "."

\* field_path.split('.'): the segments between the dots, empty ones included
RECURSIVE Split(_)
Split(path) ==
    IF \A i \in DOMAIN path : path[i] # Dot THEN <<path>>
    ELSE LET d == CHOOSE i \in DOMAIN path :
                      path[i] = Dot /\ \A j \in 1..(i - 1) : path[j] # Dot
         IN  <<SubSeq(path, 1, d - 1)>> \o Split(SubSeq(path, d + 1, Len(path)))

\* the segment as the &str an object is asked for
RECURSIVE Join(_)
Join(chars) == IF chars = <<>> THEN "" ELSE chars[1] \o Join(Tail(chars))

Digits == {"0", "1", "2"}
DigitValue(c) == CASE c = "0" -> 0 [] c = "1" -> 1 [] c = "2" -> 2

RECURSIVE Decimal(_)
Decimal(chars) ==
    IF chars = <<>> THEN 0
    ELSE 10 * Decimal(SubSeq(chars, 1, Len(chars) - 1)) + DigitValue(chars[Len(chars)])

\* part.parse::<usize>(): digits after an optional plus sign; <<n>> or <<>>
ParseUsize(chars) ==
    LET digits == IF chars # <<>> /\ chars[1] = "+" THEN Tail(chars) ELSE chars
    IN  IF digits # <<>> /\ \A i \in DOMAIN digits : digits[i] \in Digits
        THEN <<Decimal(digits)>>
        ELSE <<>>

\* arr.get(index)
ArrGetOneBased(x, index) ==
    IF index >= 1 /\ index <= Len(x[4]) THEN <<x[4][index]>> ELSE <<>>

ArrGet(x, index) ==
    IF index < Len(x[4]) THEN <<x[4][index + 1]>> ELSE <<>>

\* extract_field_value from the i-th segment on: <<value>> or <<>> for None
RECURSIVE Walk(_, _, _)
Walk(current, parts, i) ==
    IF i > Len(parts) THEN <<current>>
    ELSE IF current[1] = "obj"
    THEN IF Join(parts[i]) \in ObjKeys(current)
         THEN Walk(ObjGet(current, Join(parts[i])), parts, i + 1)
         ELSE <<>>
    ELSE IF current[1] = "arr"
    THEN IF ParseUsize(parts[i]) # <<>> /\ ArrGet(current, ParseUsize(parts[i])[1]) # <<>>
         THEN Walk(ArrGet(current, ParseUsize(parts[i])[1])[1], parts, i + 1)
         ELSE <<>>
    ELSE <<>>

ExtractFieldValue(value, field_path) == Walk(value, Split(field_path), 1)

\* hash_field_value: <<what is fed to the hasher>> or <<>> for None
HashFieldValue(value, field_path) ==
    IF ExtractFieldValue(value, field_path) # <<>>
    THEN <<HashJsonValue(ExtractFieldValue(value, field_path)[1])>>
    ELSE <<>>

\* ------------------------------------------------------------------ specification

\* a store just constructed: InMemoryDB::new(), or new_with_persistence on a path
\* where no file exists yet
Init ==
    /\ storage = EmptyMap
    /\ persistence_file \in {NoPath, Path}
    /\ auto_save = TRUE
    /\ backup_enabled = (persistence_file # NoPath)
    /\ fs = NoFiles
    /\ clock = 1
    /\ pc = "idle"
    /\ op = "new"
    /\ res = "ok"
    /\ json_data = <<>>
    /\ last_saved = NeverSaved
    /\ snap = NoFiles
    /\ tampers = 0
    /\ hash_writes = 0
    /\ writers = NoWriters
    /\ ops = 0
    /\ faults = 0
    /\ indexes = NoIndexes
    /\ index_order = NoIndexes
    /\ failed_at = ""
    /\ args = NoArgs

Next ==
    \/ \E k \in Keys, v \in Values : Insert(k, v)
    \/ \E k \in Keys : Delete(k)
    \/ \E k \in Keys, v \in Values : Update(k, v)
    \/ Clear
    \/ Save
    \/ Reload
    \/ Validate
    \/ \E b \in BOOLEAN : SetAutoSave(b)
    \/ \E b \in BOOLEAN : SetBackupEnabled(b)
    \/ RepairFile
    \/ CreateBackup
    \/ CreateTemp
    \/ WriteAll
    \/ Flush
    \/ Rename
    \/ Crash
    \/ New
    \/ NewWithPersistence
    \/ \E bytes \in TamperBytes : ExternalWrite(bytes)
    \/ Tick

Spec == Init /\ [][Next]_vars

\* the store and a caller that records digests with save_data_hash
IntegrityNext ==
    \/ \E k \in Keys, v \in Values : Insert(k, v)
    \/ \E k \in Keys : Delete(k)
    \/ Save
    \/ RepairFile
    \/ CreateBackup
    \/ CreateTemp
    \/ WriteAll
    \/ Flush
    \/ Rename
    \/ \E n \in HashNames : SaveDataHash(n)
    \/ Tick

IntegrityInit ==
    /\ Init
    /\ persistence_file = Path

IntegritySpec == IntegrityInit /\ [][IntegrityNext]_vars

\* A function that reads no state of the store: the state in which it is called
\* with arguments a, and the step in which it returns r.
PureInit(a) ==
    /\ storage = EmptyMap
    /\ persistence_file = NoPath
    /\ auto_save = TRUE
    /\ backup_enabled = FALSE
    /\ fs = NoFiles
    /\ clock = 1
    /\ pc = "idle"
    /\ op = "new"
    /\ res = <<>>
    /\ json_data = <<>>
    /\ last_saved = NeverSaved
    /\ snap = NoFiles
    /\ tampers = 0
    /\ hash_writes = 0
    /\ writers = NoWriters
    /\ ops = 0
    /\ faults = 0
    /\ indexes = NoIndexes
    /\ index_order = NoIndexes
    /\ failed_at = ""
    /\ args = a

PureReturn(o, r) ==
    /\ op = "new"
    /\ op' = o
    /\ res' = r
    /\ UNCHANGED <<storage, persistence_file, auto_save, backup_enabled, fs, clock, pc,
                   json_data, last_saved, snap, tampers, hash_writes, writers, ops, faults,
                   indexes, index_order, failed_at, args>>

\* the values that are x with the items of its arrays and the members of its
\* objects, at every depth, taken in another order
RECURSIVE Rearranged(_)
Rearranged(x) ==
    IF x[1] \in {"arr", "obj"}
    THEN LET n == Len(x[4])
             each == [i \in 1..n |-> Rearranged(x[4][i])]
             variants == {t \in [1..n -> UNION {each[i] : i \in 1..n}] :
                             \A i \in 1..n : t[i] \in each[i]}
         IN  {<<x[1], x[2], x[3], [i \in 1..n |-> t[p[i]]]>> :
                 t \in variants, p \in Orders(1..n)}
    ELSE IF x[1] = "mem"
    THEN {JMem(x[2], v) : v \in Rearranged(x[4][1])}
    ELSE {x}

\* hash_value called on two values, the second a rearrangement of the first
HashInit == \E x \in JsonValues(MaxDepth) : \E y \in Rearranged(x) : PureInit(<<x, y>>)

HashValuePair ==
    /\ pc = "idle"
    /\ PureReturn("hash_value", <<HashJsonValue(args[1]), HashJsonValue(args[2])>>)

HashNext == HashValuePair

HashSpec == HashInit /\ [][HashNext]_vars

\* {"user": {"name": "Ann", "tags": ["x", "y"]}}
\* ------------------------------------------------------------------ field queries

\* field_value != expected on serde_json values: objects are equal when they have
\* the same members, arrays when they have the same items in the same order
RECURSIVE ValueEq(_, _)
ValueEq(x, y) ==
    IF x[1] # y[1] THEN FALSE
    ELSE IF x[1] = "obj"
    THEN /\ ObjKeys(x) = ObjKeys(y)
         /\ \A k \in ObjKeys(x) : ValueEq(ObjGet(x, k), ObjGet(y, k))
    ELSE IF x[1] = "arr"
    THEN /\ Len(x[4]) = Len(y[4])
         /\ \A i \in DOMAIN x[4] : ValueEq(x[4][i], y[4][i])
    ELSE x = y

\* str::to_lowercase; A, B and N are the capital letters of the model's strings
LowerChar(c) == CASE c = "A" -> "a" [] c = "B" -> "b" [] c = "N" -> "n" [] OTHER -> c

RECURSIVE ToLowercase(_)
ToLowercase(t) == IF t = "" THEN "" ELSE LowerChar(SubSeq(t, 1, 1)) \o ToLowercase(Tail(t))

\* str::contains
Contains(t, pattern) ==
    \E i \in 0..(Len(t) - Len(pattern)) : SubSeq(t, i + 1, i + Len(pattern)) = pattern

\* for (key, value) in storage: the keys the loop visits, in the order in which
\* the HashMap of the records iterates; self and index_name are not read
CandidatesFromIndex(self, index_name, order) ==
    IF index_name \notin DOMAIN self THEN <<>>
    ELSE SelectSeq(order, LAMBDA key :
             \E h \in DOMAIN self[index_name] :
                 \E i \in DOMAIN self[index_name][h] : self[index_name][h][i] = key)

Candidates(self, index_name, order) == order

\* find_partial(&self, index_name, field, substring, storage)
FindPartial(self, index_name, field, substring, records, order) ==
    SelectSeq(Candidates(self, index_name, order), LAMBDA key :
        LET field_value == ExtractFieldValue(records[key], field)
        IN  /\ field_value # <<>>
            /\ field_value[1][1] = "str"
            /\ Contains(ToLowercase(field_value[1][2]), ToLowercase(substring)))

\* find_range(&self, index_name, field, min, max, storage)
FindRange(self, index_name, field, min, max, records, order) ==
    SelectSeq(Candidates(self, index_name, order), LAMBDA key :
        LET field_value == ExtractFieldValue(records[key], field)
        IN  /\ field_value # <<>>
            /\ field_value[1][1] = "num"
            /\ field_value[1][3] >= min
            /\ field_value[1][3] <= max)

\* find_multi(&self, index_name, field_values, storage)
FindMulti(self, index_name, field_values, records, order) ==
    SelectSeq(Candidates(self, index_name, order), LAMBDA key :
        \A i \in DOMAIN field_values :
            LET field_value == ExtractFieldValue(records[key], field_values[i][1])
            IN  /\ field_value # <<>>
                /\ ValueEq(field_value[1], field_values[i][2]))

\* list_field_values(&self, index_name, field, storage): the values of the field
\* in the first i records visited, each value once
RECURSIVE SeenValues(_, _, _, _)
SeenValues(visited, field, records, i) ==
    IF i = 0 THEN <<>>
    ELSE LET values == SeenValues(visited, field, records, i - 1)
             field_value == ExtractFieldValue(records[visited[i]], field)
         IN  IF field_value = <<>> THEN values
             ELSE IF \E j \in DOMAIN values : ValueEq(values[j], field_value[1])
             THEN values
             ELSE Append(values, field_value[1])

ListFieldValues(self, index_name, field, records, order) ==
    SeenValues(Candidates(self, index_name, order), field, records,
               Len(Candidates(self, index_name, order)))

AnnRecord ==
    JObj(<<JMem("user", JObj(<<JMem("name", JStr("Ann")),
                               JMem("tags", JArr(<<JStr("x"), JStr("y")>>))>>))>>)

UserName == <<"u", "s", "e", "r", ".", "n", "a", "m", "e">>
UserTags1 == <<"u", "s", "e", "r", ".", "t", "a", "g", "s", ".", "1">>
UserMissing == <<"u", "s", "e", "r", ".", "m", "i", "s", "s", "i", "n", "g">>

PathChars == {"a", Dot, "0", "1"}
FieldPaths == UNION {[1..n -> PathChars] : n \in 1..MaxPath}

\* extract_field_value called on a value and a field path
FieldInit ==
    \/ \E x \in JsonValues(MaxDepth), path \in FieldPaths : PureInit(<<x, path>>)
    \/ \E path \in {UserName, UserTags1, UserMissing} : PureInit(<<AnnRecord, path>>)

ExtractField ==
    /\ pc = "idle"
    /\ PureReturn("extract_field_value", ExtractFieldValue(args[1], args[2]))

FieldNext == ExtractField

FieldSpec == FieldInit /\ [][FieldNext]_vars

\* a store built by InMemoryDB::new()
\* the records, the field arguments and the states of the index map the field
\* queries are called with
NameField == <<"n", "a", "m", "e">>
AgeField == <<"a", "g", "e">>
CityField == <<"c", "i", "t", "y">>
QueryFields == {NameField, AgeField, CityField}

QueryRecords ==
    {JObj(<<JMem("age", JNum(1)), JMem("name", JStr("Ann"))>>),
     JObj(<<JMem("age", JNum(2)), JMem("name", JStr("ann"))>>),
     JObj(<<JMem("name", JStr("Bob"))>>)}

Substrings == {"", "AN", "b", "z"}
RangeBounds == 0..MaxRange
ExpectedValues ==
    {<<NameField, JStr("Ann")>>, <<AgeField, JNum(1)>>, <<AgeField, JNum(2)>>}

IndexStates ==
    {NoIndexes,
     Put(NoIndexes, "idx", NoBuckets),
     Put(NoIndexes, "idx", Push(NoBuckets, HashValue(1), "a")),
     Put(NoIndexes, "idx", Push(Push(NoBuckets, HashValue(1), "b"), HashValue(2), "a")),
     Put(NoIndexes, "idx", Push(Push(NoBuckets, HashValue(1), "a"), HashValue(1), "b"))}

QueryInit ==
    /\ \E D \in SUBSET Keys : storage \in [D -> QueryRecords]
    /\ indexes \in IndexStates
    /\ index_order = NoIndexes
    /\ failed_at = ""
    /\ persistence_file = NoPath
    /\ auto_save = TRUE
    /\ backup_enabled = FALSE
    /\ fs = NoFiles
    /\ clock = 1
    /\ pc = "idle"
    /\ op = "new"
    /\ res = <<>>
    /\ json_data = <<>>
    /\ last_saved = NeverSaved
    /\ snap = NoFiles
    /\ tampers = 0
    /\ hash_writes = 0
    /\ writers = NoWriters
    /\ ops = 0
    /\ faults = 0
    /\ args = <<>>

\* a field query called with arguments a returns r
QueryReturn(o, a, r) ==
    /\ pc = "idle"
    /\ op' = o
    /\ args' = a
    /\ res' = r
    /\ UNCHANGED <<storage, persistence_file, auto_save, backup_enabled, fs, clock, pc,
                   json_data, last_saved, snap, tampers, hash_writes, writers, ops, faults,
                   indexes, index_order, failed_at>>

QueryPartial ==
    \E field \in QueryFields, substring \in Substrings, order \in Orders(DOMAIN storage) :
        /\ op # "find_partial"
        /\ QueryReturn("find_partial", <<field, substring, order>>,
                       FindPartial(indexes, "idx", field, substring, storage, order))

QueryRange ==
    \E field \in QueryFields, min \in RangeBounds, max \in RangeBounds,
       order \in Orders(DOMAIN storage) :
        /\ op # "find_range"
        /\ QueryReturn("find_range", <<field, min, max, order>>,
                       FindRange(indexes, "idx", field, min, max, storage, order))

QueryMulti ==
    \E field_values \in SeqsUpTo(ExpectedValues, MaxItems), order \in Orders(DOMAIN storage) :
        /\ op # "find_multi"
        /\ QueryReturn("find_multi", <<field_values, order>>,
                       FindMulti(indexes, "idx", field_values, storage, order))

QueryValues ==
    \E field \in QueryFields, order \in Orders(DOMAIN storage) :
        /\ op # "list_field_values"
        /\ QueryReturn("list_field_values", <<field, order>>,
                       ListFieldValues(indexes, "idx", field, storage, order))

QueryNext ==
    \/ QueryPartial
    \/ QueryRange
    \/ QueryMulti
    \/ QueryValues

QuerySpec == QueryInit /\ [][QueryNext]_vars

\* the record sets create_data_hash is given: keys of DigestKeys, values 1 and 11
DigestValues == {1, 11}
DigestData ==
    UNION {[D -> DigestValues] : D \in SUBSET {DigestKeys[i] : i \in DOMAIN DigestKeys}}

\* a caller holding the record sets D = args[1] and D' = args[2]
DigestInit == \E D \in DigestData, E \in DigestData : PureInit(<<D, E>>)

DigestFrame ==
    UNCHANGED <<storage, persistence_file, auto_save, backup_enabled, clock, pc, json_data,
                last_saved, snap, tampers, hash_writes, writers, ops, faults, indexes,
                index_order, failed_at, args>>

\* save_data_hash("data", &create_data_hash(&D)) returns Ok
DigestSave ==
    /\ pc = "idle"
    /\ op # "save_data_hash"
    /\ op' = "save_data_hash"
    /\ res' = "ok"
    /\ fs' = WriteFile(fs, HashPath("data"), CreateDataHash(args[1]))
    /\ DigestFrame

\* verify_data_integrity("data", &D')
DigestVerify ==
    /\ pc = "idle"
    /\ op # "verify_data_integrity"
    /\ op' = "verify_data_integrity"
    /\ res' = IF VerifyDataIntegrity("data", args[2]) THEN "true" ELSE "false"
    /\ fs' = fs
    /\ DigestFrame

DigestNext ==
    \/ DigestSave
    \/ DigestVerify

DigestSpec == DigestInit /\ [][DigestNext]_vars

\* ------------------------------------------------------------------ a caller that maintains the index

\* the buckets of index n, none when no index has the name
Buckets(n) == IF n \in DOMAIN indexes THEN indexes[n] ELSE NoBuckets

\* the files after the index calls i.. of a caller, each call leaving the index
\* as maps[i] and saving it; the call numbered failing is the one whose save
\* fails, and the last save serializes in the given order
RECURSIVE FsAfter(_, _, _, _, _, _)
FsAfter(f, n, maps, order, failing, i) ==
    IF i > Len(maps) THEN {f}
    ELSE LET orders == IF i = Len(maps) THEN {order} ELSE Orders(DOMAIN maps[i])
             saved == IF i = failing
                      THEN UNION {SaveIndexFailed(f, n, maps[i], o) : o \in orders}
                      ELSE {SaveIndexOk(f, n, maps[i], o) : o \in orders}
         IN  UNION {FsAfter(g, n, maps, order, failing, i + 1) : g \in saved}

\* the caller's remove_from_index and add_to_index calls on index n that
\* accompany one mutation of the store
PairedCalls(n, maps) ==
    IF n \notin DOMAIN indexes \/ maps = <<>>
    THEN /\ NoFault
         /\ UNCHANGED <<indexes, index_order, fs>>
    ELSE \E order \in Orders(DOMAIN maps[Len(maps)]), failing \in 0..Len(maps) :
             /\ indexes' = [indexes EXCEPT ![n] = maps[Len(maps)]]
             /\ index_order' = Put(index_order, n, order)
             /\ IF failing = 0 THEN NoFault ELSE Fault
             /\ fs' \in FsAfter(fs, n, maps, order, failing, 1)

PairedFrame == UNCHANGED <<persistence_file, auto_save, backup_enabled, clock,
                           last_saved, tampers, hash_writes, writers>>

\* remove_from_index(n, k, old value) when k has a value
Unpaired(n, k) ==
    IF k \in DOMAIN storage
    THEN <<Unlink(Buckets(n), HashValue(storage[k]), k)>>
    ELSE <<>>

\* ... followed by add_to_index(n, k, v)
Repaired(n, k, v) ==
    Unpaired(n, k)
        \o <<Push(IF k \in DOMAIN storage
                  THEN Unlink(Buckets(n), HashValue(storage[k]), k)
                  ELSE Buckets(n),
                  HashValue(v), k)>>

\* insert(k, v) with the index calls of the caller
PairedInsert(n, k, v) ==
    /\ Call
    /\ args' = <<k, v>>
    /\ storage' = Put(storage, k, v)
    /\ PairedCalls(n, Repaired(n, k, v))
    /\ Done("insert", "ok")
    /\ snap' = NoFiles
    /\ PairedFrame

\* update(k, v) with the index calls of the caller
PairedUpdate(n, k, v) ==
    /\ Call
    /\ args' = <<k, v>>
    /\ IF KeyExists(k)
       THEN /\ storage' = Put(storage, k, v)
            /\ PairedCalls(n, Repaired(n, k, v))
            /\ Done("update", "true")
       ELSE /\ storage' = storage
            /\ PairedCalls(n, <<>>)
            /\ Done("update", "false")
    /\ snap' = NoFiles
    /\ PairedFrame

\* delete(k) with the index call of the caller
PairedDelete(n, k) ==
    /\ Call
    /\ args' = <<k, 0>>
    /\ storage' = Remove(storage, k)
    /\ PairedCalls(n, Unpaired(n, k))
    /\ Done("delete", "ok")
    /\ snap' = NoFiles
    /\ PairedFrame

\* the index after remove_from_index for the first i keys of ks
RECURSIVE Unlinked(_, _, _, _)
Unlinked(index, records, ks, i) ==
    IF i = 0 THEN index
    ELSE Unlink(Unlinked(index, records, ks, i - 1), HashValue(records[ks[i]]), ks[i])

\* clear() with one remove_from_index per record
PairedClear(n) ==
    /\ Call
    /\ args' = NoArgs
    /\ storage' = EmptyMap
    /\ \E ks \in Orders(DOMAIN storage) :
           PairedCalls(n, [i \in 1..Len(ks) |-> Unlinked(Buckets(n), storage, ks, i)])
    /\ Done("clear", "ok")
    /\ snap' = NoFiles
    /\ PairedFrame

PairedNext ==
    \/ \E n \in IndexNames : CreateIndex(n)
    \/ \E n \in IndexNames : RebuildIndex(n)
    \/ \E n \in IndexNames, k \in Keys, v \in Values : PairedInsert(n, k, v)
    \/ \E n \in IndexNames, k \in Keys, v \in Values : PairedUpdate(n, k, v)
    \/ \E n \in IndexNames, k \in Keys : PairedDelete(n, k)
    \/ \E n \in IndexNames : PairedClear(n)

PairedInit ==
    /\ Init
    /\ persistence_file = NoPath

PairedSpec == PairedInit /\ [][PairedNext]_vars

MemoryNext ==
    \/ \E k \in Keys, v \in Values : Insert(k, v)
    \/ \E k \in Keys : Delete(k)
    \/ \E k \in Keys, v \in Values : Update(k, v)
    \/ Clear
    \/ Save
    \/ Reload
    \/ Validate
    \/ RepairFile
    \/ \E b \in BOOLEAN : SetAutoSave(b)
    \/ \E b \in BOOLEAN : SetBackupEnabled(b)

MemoryInit ==
    /\ Init
    /\ persistence_file = NoPath

MemorySpec == MemoryInit /\ [][MemoryNext]_vars

\* an in-memory store and a HashIndex beside it
IndexNext ==
    \/ \E k \in Keys, v \in Values : Insert(k, v)
    \/ \E k \in Keys : Delete(k)
    \/ \E k \in Keys, v \in Values : Update(k, v)
    \/ Clear
    \/ \E n \in IndexNames : CreateIndex(n)
    \/ \E n \in IndexNames : DropIndex(n)
    \/ \E n \in IndexNames, k \in Keys, v \in Values : AddToIndex(n, k, v)
    \/ \E n \in IndexNames, k \in Keys, v \in Values : RemoveFromIndex(n, k, v)
    \/ \E n \in IndexNames : RebuildIndex(n)
    \/ \E n \in IndexNames : ClearIndex(n)
    \/ \E n \in IndexNames : VerifyIndex(n)

IndexInit ==
    /\ Init
    /\ persistence_file = NoPath

IndexSpec == IndexInit /\ [][IndexNext]_vars

\* ------------------------------------------------------------------ claims: persistence

PrimaryExists == Exists(fs, Path)
Mutations == {"insert", "update", "delete", "clear"}

\* the state right after operation o returned r
Returned(o, r) == pc = "idle" /\ op = o /\ res = r

\* C1: a load (reload(), or a new store on the same path) that follows a save
\* which returned Ok, with no write to the file from outside in between, returns
\* Ok and leaves in memory exactly the mapping that was in memory at that save,
\* whatever the auto-save flag.
C1_RoundTrip ==
    (pc = "idle" /\ op \in {"reload", "new"} /\ Persistent /\ last_saved.valid)
        => (res = "ok" /\ storage = last_saved.data)

C1_Witness ==
    /\ Returned("reload", "ok")
    /\ ~auto_save
    /\ last_saved.valid
    /\ storage = last_saved.data
    /\ storage # EmptyMap

\* C2: while nothing outside the store has written the primary file, in every
\* state (inside a save, after a failed step, after the process ended) the primary
\* file is absent, or holds one complete serialization: of the mapping of the last
\* save that reached it.
C2_AtomicSave ==
    tampers = 0 =>
        \/ ~PrimaryExists /\ ~last_saved.valid
        \/ PrimaryExists /\ last_saved.valid /\ fs[Path] \in Serializations(last_saved.data)

C2_Witness ==
    /\ pc = "crashed"
    /\ tampers = 0
    /\ PrimaryExists
    /\ Exists(fs, TempPathOf(Path))
    /\ fs[TempPathOf(Path)] # <<>>
    /\ ~IsObject(fs[TempPathOf(Path)])

\* C3: with auto-save on and a persistence path, right after an insert, delete or
\* clear that returned Ok, or an update that returned true, the primary file
\* parses to exactly the in-memory mapping.
C3_WriteThrough ==
    (/\ pc = "idle"
     /\ auto_save
     /\ Persistent
     /\ \/ op \in {"insert", "delete", "clear"} /\ res = "ok"
        \/ op = "update" /\ res = "true")
        => (PrimaryExists /\ IsObject(fs[Path]) /\ FromStr(fs[Path]) = storage)

C3_Witness ==
    /\ Returned("insert", "ok")
    /\ auto_save
    /\ Persistent
    /\ Cardinality(DOMAIN storage) = 2
    /\ FromStr(fs[Path]) = storage

\* C4: with auto-save off a mutation returns at once and leaves every file (the
\* primary file, the backups) as it was; a reload() that follows, the file not
\* written from outside since the last save, restores the mapping last saved.
C4_AutoSaveOff ==
    [][/\ (pc = "idle" /\ ops' # ops /\ op' \in Mutations /\ ~auto_save)
            => (fs' = fs /\ pc' = "idle" /\ res' # "err")
       /\ (pc = "idle" /\ ops' # ops /\ op' = "reload" /\ ~auto_save /\ last_saved.valid)
            => (res' = "ok" /\ storage' = last_saved.data)]_vars

C4_Witness ==
    /\ pc = "idle"
    /\ op \in Mutations
    /\ ~auto_save
    /\ Persistent
    /\ last_saved.valid
    /\ storage # last_saved.data

\* C7: repair_file returned Ok on a store with a persistence path and found no
\* backup that parses: the store is empty, the primary file holds the empty
\* mapping, validate_file_integrity() is true and a reload yields the empty store.
C7_RepairFallback ==
    (/\ Returned("repair", "ok")
     /\ Persistent
     /\ \A ts \in BackupTimes(snap) : ~IsObject(snap[BackupPath(ts)]))
        => /\ storage = EmptyMap
           /\ StoreLen = 0
           /\ PrimaryExists
           /\ fs[Path] = <<LB, RB>>
           /\ ValidateFileIntegrity = "true"
           /\ LoadFromFile(storage) = [res |-> "ok", storage |-> EmptyMap]

C7_Witness ==
    /\ Returned("repair", "ok")
    /\ Persistent
    /\ BackupTimes(snap) # {}
    /\ \A ts \in BackupTimes(snap) : ~IsObject(snap[BackupPath(ts)])
    /\ storage = EmptyMap

\* the content is neither blank nor a JSON object
Corrupt(c) == ~IsBlank(c) /\ ~IsObject(c)

C10_ValidateResult ==
    (pc = "idle" /\ op = "validate")
        => LET valid == \/ ~Persistent
                        \/ PrimaryExists /\ (IsBlank(fs[Path]) \/ IsObject(fs[Path]))
           IN  res = (IF valid THEN "true" ELSE "false")

\* ------------------------------------------------------------------ claims: integrity records

\* the backup that parses and, where a record exists under its name, matches it
Verified(f, ts) ==
    /\ IsObject(f[BackupPath(ts)])
    /\ Exists(f, HashPath(BackupPath(ts)))
        => f[HashPath(BackupPath(ts))] = CreateDataHash(FromStr(f[BackupPath(ts)]))

\* C6: after repair_file returned Ok the store and the primary file hold the
\* content of the newest backup that parses and matches its integrity record when
\* it has one (the empty mapping when there is none).
C6_RepairAdoptsVerified ==
    (Returned("repair", "ok") /\ Persistent)
        => LET good == {ts \in BackupTimes(snap) : Verified(snap, ts)}
               expected == IF good = {} THEN EmptyMap
                           ELSE FromStr(snap[BackupPath(Max(good))])
           IN  /\ storage = expected
               /\ PrimaryExists
               /\ IsObject(fs[Path])
               /\ FromStr(fs[Path]) = expected

\* C8: right after a save that returned Ok, the integrity record of the data file
\* exists and is the digest of the mapping just saved.
C8_RecordFollowsSave ==
    (Persistent /\ pc = "idle" /\ op \in {"save", "insert", "delete"} /\ res = "ok")
        => VerifyDataIntegrity(Path, storage)

\* ------------------------------------------------------------------ claims: index

IndexedKeys(n, v) == {FindByValue(n, v)[i] : i \in DOMAIN FindByValue(n, v)}

\* find_by_value(n, v) holds exactly the keys whose value hashes as v does
IndexConsistent(n) ==
    \A v \in Values :
        IndexedKeys(n, v) = {k \in DOMAIN storage : HashValue(storage[k]) = HashValue(v)}

\* C5: an insert, update or delete of the store keeps every index that answers
\* find_by_value exactly answering it exactly.
C5_IndexFollowsStore ==
    [][(pc = "idle" /\ ops' # ops /\ op' \in {"insert", "update", "delete"})
            => \A n \in DOMAIN indexes : IndexConsistent(n) => IndexConsistent(n)']_vars

\* ------------------------------------------------------------------ claims: the mapping

\* the step in which a caller invokes operation o
Calls(o) == pc = "idle" /\ ops' # ops /\ op' = o

\* a step of save_to_file that is not the end of the process
SaveStep == pc \notin {"idle", "crashed"} /\ pc' # "crashed"

\* the step in which save_to_file returns to operation o without an I/O failure
Completes(o) == SaveStep /\ op = o /\ pc' = "idle" /\ faults' = faults

\* every key but k has the value, or the absence, it had
OthersKept(k) ==
    \A j \in Keys \ {k} :
        /\ (j \in DOMAIN storage') = (j \in DOMAIN storage)
        /\ j \in DOMAIN storage => storage'[j] = storage[j]

\* C11: insert(k, v) inserts or overwrites: once it has acted k is a key with
\* value v, the number of records grew by one exactly when k was absent, every
\* other key kept its value, and the mapping stays so until insert returns.
C11_Insert ==
    [][/\ Calls("insert")
            => /\ args'[1] \in DOMAIN storage'
               /\ storage'[args'[1]] = args'[2]
               /\ Cardinality(DOMAIN storage') =
                      Cardinality(DOMAIN storage) + (IF args'[1] \in DOMAIN storage THEN 0 ELSE 1)
               /\ OthersKept(args'[1])
       /\ (SaveStep /\ op = "insert") => (storage' = storage /\ args' = args)]_vars

C11_Witness ==
    /\ Returned("insert", "ok")
    /\ Persistent
    /\ args = <<"a", 2>>
    /\ storage = [a |-> 2, b |-> 1]
    /\ last_saved.valid
    /\ last_saved.data = storage

\* C12: update(k, v) never creates a key.  Called with an absent k it returns
\* false at once and the mapping is unchanged; called with a present k it sets
\* the value of k to v, keeps every other key, and returns true (the error of
\* its auto-save when that fails, never false).
C12_Update ==
    [][/\ Calls("update")
            => /\ DOMAIN storage' = DOMAIN storage
               /\ IF args'[1] \notin DOMAIN storage
                  THEN /\ storage' = storage
                       /\ pc' = "idle"
                       /\ res' = "false"
                  ELSE /\ storage'[args'[1]] = args'[2]
                       /\ OthersKept(args'[1])
                       /\ pc' = "idle" => res' = "true"
       /\ (SaveStep /\ op = "update") => (storage' = storage /\ args' = args)
       /\ Completes("update") => res' = "true"]_vars

C12_Witness ==
    /\ Returned("update", "false")
    /\ args[1] = "b"
    /\ storage = [a |-> 1]

\* C13: delete(k) removes the record: once it has acted k is no key, every other
\* key kept its value, and when k was absent the mapping is unchanged; delete
\* returns Ok in both cases (the error of its auto-save when that fails).
C13_Delete ==
    [][/\ Calls("delete")
            => /\ args'[1] \notin DOMAIN storage'
               /\ OthersKept(args'[1])
               /\ args'[1] \notin DOMAIN storage => storage' = storage
               /\ pc' = "idle" => res' = "ok"
       /\ (SaveStep /\ op = "delete") => (storage' = storage /\ args' = args)
       /\ Completes("delete") => res' = "ok"]_vars

C13_Witness ==
    /\ Returned("delete", "ok")
    /\ args[1] = "a"
    /\ storage = [b |-> 1]
    /\ Persistent
    /\ auto_save
    /\ PrimaryExists
    /\ FromStr(fs[Path]) = storage

\* ------------------------------------------------------------------ claims: backups

\* the backups of the persistence file, by timestamp
BackupsOf(f) == [ts \in BackupTimes(f) |-> f[BackupPath(ts)]]

\* C14: with backups enabled and a primary file present, a save leaves the
\* primary file alone until its rename, and in the step that replaces the primary
\* file the backup stamped with the second of this save exists and holds the
\* bytes the primary file had before the save.
C14_BackupBeforeOverwrite ==
    [][/\ (SaveStep /\ pc # "rename")
            => /\ Exists(fs', Path) = Exists(fs, Path)
               /\ Exists(fs, Path) => fs'[Path] = fs[Path]
       /\ (SaveStep /\ pc = "rename" /\ pc' = "idle" /\ res' # "err"
                    /\ backup_enabled /\ Exists(fs, Path))
            => /\ Exists(fs', BackupPath(clock))
               /\ fs'[BackupPath(clock)] = fs[Path]]_vars

C14_Witness ==
    /\ Returned("insert", "ok")
    /\ backup_enabled
    /\ storage = [a |-> 1, b |-> 1]
    /\ PrimaryExists
    /\ FromStr(fs[Path]) = storage
    /\ Exists(fs, BackupPath(clock))
    /\ IsObject(fs[BackupPath(clock)])
    /\ FromStr(fs[BackupPath(clock)]) = [a |-> 1]

\* C15: while backups are disabled no step of the store creates, changes or
\* removes a backup file.
C15_NoBackupWhenDisabled ==
    [][~backup_enabled => BackupsOf(fs') = BackupsOf(fs)]_vars

C15_Witness ==
    /\ Returned("insert", "ok")
    /\ Persistent
    /\ ~backup_enabled
    /\ auto_save
    /\ storage = [a |-> 1, b |-> 1]
    /\ PrimaryExists
    /\ FromStr(fs[Path]) = storage
    /\ BackupTimes(fs) = {}

\* C16: a backup, once created, is never modified or deleted by a later step of
\* the store: every backup that exists keeps its bytes, also when several saves
\* fall into the same clock second.
C16_BackupsImmutable ==
    [][\A ts \in BackupTimes(fs) :
            /\ Exists(fs', BackupPath(ts))
            /\ fs'[BackupPath(ts)] = fs[BackupPath(ts)]]_vars

\* ------------------------------------------------------------------ claims: load

\* C17: when the load algorithm has run, in the constructor or in reload(), on a
\* persistence file that is absent, empty or whitespace-only, it returned Ok and
\* the store is empty.
C17_LoadAbsentOrBlank ==
    (pc = "idle" /\ op \in {"new", "reload"} /\ Persistent
        /\ (PrimaryExists => IsBlank(fs[Path])))
        => (res = "ok" /\ storage = EmptyMap)

\* C18: reload() on a persistence file that exists, is not blank and does not
\* parse as a JSON object returns an error at once and leaves the mapping and
\* every file, the persistence file and the backups among them, as they were.
C18_LoadParseFailure ==
    [][(Calls("reload") /\ Persistent /\ PrimaryExists /\ Corrupt(fs[Path]))
            => /\ pc' = "idle"
               /\ res' = "err"
               /\ storage' = storage
               /\ fs' = fs]_vars

C18_Witness ==
    /\ Returned("reload", "err")
    /\ PrimaryExists
    /\ fs[Path] = <<JUNK>>
    /\ storage = [a |-> 1, b |-> 2]
    /\ BackupTimes(fs) # {}

\* C19: constructing a persistent store over an existing file that does not
\* parse returns Ok with an empty store and leaves the file as it is, and
\* validate_file_integrity() called on that store returns false.
C19_NewOverCorruptFile ==
    [][/\ (pc = "crashed" /\ op' = "new" /\ Persistent /\ PrimaryExists /\ Corrupt(fs[Path]))
            => /\ res' = "ok"
               /\ storage' = EmptyMap
               /\ fs' = fs
       /\ (Calls("validate") /\ op = "new" /\ Persistent /\ PrimaryExists
                             /\ Corrupt(fs[Path]))
            => /\ res' = "false"
               /\ storage' = storage
               /\ fs' = fs]_vars

\* ------------------------------------------------------------------ claims: clear

\* C20: clear() removes all records and empties every index: after the call the
\* store has no key and, for every index and every value, find_by_value is empty
\* and the index's file on disk, when there is one, is that of an index without
\* buckets.
C20_ClearEmptiesIndexes ==
    [][Calls("clear")
            => /\ storage' = EmptyMap
               /\ \A n \in DOMAIN indexes' :
                      /\ \A v \in Values : FindByValue(n, v)' = <<>>
                      /\ Exists(fs', IndexFile(n))
                            => fs'[IndexFile(n)] = IndexJsonPretty(NoBuckets, <<>>)]_vars

\* ------------------------------------------------------------------ claims: in-memory mode

\* C21: on a store without a persistence path every operation returns at once
\* and without an error, no step creates or writes a file, and save, reload,
\* validate_file_integrity and repair_file leave the mapping unchanged.
C21_PureInMemory ==
    [][~Persistent
            => /\ pc' = "idle"
               /\ res' \in {"ok", "true", "false"}
               /\ fs' = fs
               /\ fs' = NoFiles
               /\ op' \in {"save", "reload", "validate", "repair"} => storage' = storage]_vars

C21_Witness ==
    /\ ~Persistent
    /\ Returned("repair", "ok")
    /\ auto_save
    /\ backup_enabled
    /\ storage = [a |-> 1]
    /\ fs = NoFiles

\* ------------------------------------------------------------------ claims: structural hash

\* x and y are the same JSON value: objects with the same members whatever
\* their order, arrays with the same items in the same order
RECURSIVE SameJson(_, _)
SameJson(x, y) ==
    IF x[1] # y[1] THEN FALSE
    ELSE IF x[1] = "obj"
    THEN /\ ObjKeys(x) = ObjKeys(y)
         /\ \A k \in ObjKeys(x) : SameJson(ObjGet(x, k), ObjGet(y, k))
    ELSE IF x[1] = "arr"
    THEN /\ Len(x[4]) = Len(y[4])
         /\ \A i \in DOMAIN x[4] : SameJson(x[4][i], y[4][i])
    ELSE x = y

\* C22: two values that differ only in the order of items and members, at any
\* depth, are fed to the hasher as the same bytes exactly when they differ in the
\* order of object members only: the order of the keys of an object does not
\* count, the order of the items of an array does.
C22_CanonicalHash ==
    op = "hash_value" => ((res[1] = res[2]) <=> SameJson(args[1], args[2]))

\* {a: [1, 2], b: {a: 1, b: 2}} against {b: {b: 2, a: 1}, a: [1, 2]}
C22_Witness ==
    /\ op = "hash_value"
    /\ args[1] = JObj(<<JMem("a", JArr(<<JNum(1), JNum(2)>>)),
                        JMem("b", JObj(<<JMem("a", JNum(1)), JMem("b", JNum(2))>>))>>)
    /\ args[2] = JObj(<<JMem("b", JObj(<<JMem("b", JNum(2)), JMem("a", JNum(1))>>)),
                        JMem("a", JArr(<<JNum(1), JNum(2)>>))>>)
    /\ res[1] = res[2]

\* [1, 2] against [2, 1]
C22_WitnessArray ==
    /\ op = "hash_value"
    /\ args[1] = JArr(<<JNum(1), JNum(2)>>)
    /\ args[2] = JArr(<<JNum(2), JNum(1)>>)
    /\ res[1] # res[2]

\* ------------------------------------------------------------------ claims: field paths

\* what one segment resolves to on a value: a member by key, an item by 0-based
\* index, nothing on a scalar; <<value>> or <<>> for no match
Resolve(x, segment) ==
    IF x[1] = "obj"
    THEN IF \E i \in DOMAIN x[4] : x[4][i][2] = Join(segment)
         THEN <<x[4][CHOOSE i \in DOMAIN x[4] : x[4][i][2] = Join(segment)][4][1]>>
         ELSE <<>>
    ELSE IF x[1] = "arr"
    THEN IF /\ segment # <<>>
            /\ \A i \in DOMAIN segment : segment[i] \in {"0", "1"}
            /\ \E n \in 0..(Len(x[4]) - 1) : Decimal(segment) = n
         THEN <<x[4][Decimal(segment) + 1]>>
         ELSE <<>>
    ELSE <<>>

\* the path up to its last dot, and the segment after it
LastDot(path) == CHOOSE i \in DOMAIN path : path[i] = Dot /\ \A j \in (i + 1)..Len(path) : path[j] # Dot
Parent(path) == SubSeq(path, 1, LastDot(path) - 1)
LastSegment(path) == SubSeq(path, LastDot(path) + 1, Len(path))

\* C23: a dotted path is resolved segment by segment: a path of one segment
\* yields what that segment resolves to on the value, a longer path yields what
\* its last segment resolves to on the result of the path before it, and no match
\* when that path has none; on {user: {name: "Ann", tags: ["x", "y"]}}
\* "user.name" gives "Ann", "user.tags.1" gives "y", "user.missing" no match.
C23_FieldPath ==
    op = "extract_field_value"
        => /\ IF \A i \in DOMAIN args[2] : args[2][i] # Dot
              THEN res = Resolve(args[1], args[2])
              ELSE LET before == ExtractFieldValue(args[1], Parent(args[2]))
                   IN  res = IF before = <<>> THEN <<>>
                             ELSE Resolve(before[1], LastSegment(args[2]))
           /\ args = <<AnnRecord, UserName>> => res = <<JStr("Ann")>>
           /\ args = <<AnnRecord, UserTags1>> => res = <<JStr("y")>>
           /\ args = <<AnnRecord, UserMissing>> => res = <<>>

C23_Witness ==
    /\ op = "extract_field_value"
    /\ args = <<AnnRecord, UserTags1>>
    /\ res = <<JStr("y")>>

\* ------------------------------------------------------------------ claims: buckets

\* C24: no index ever holds a bucket with an empty key list, so the first
\* number of get_index_stats counts the hashes that have at least one key.
C24_NoEmptyBuckets ==
    \A n \in DOMAIN indexes :
        /\ \A h \in DOMAIN indexes[n] : indexes[n][h] # <<>>
        /\ GetIndexStats(n)[1] =
               Cardinality({HashValue(v) : v \in {w \in Values : FindByValue(n, w) # <<>>}})

C24_Witness ==
    /\ Returned("remove_from_index", "ok")
    /\ args = <<"a", 1>>
    /\ "idx" \in DOMAIN indexes
    /\ DOMAIN indexes["idx"] = {HashValue(2)}
    /\ indexes["idx"][HashValue(2)] = <<"b">>

\* the keys of each bucket, whatever their order
BucketSets(index) == [h \in DOMAIN index |-> {index[h][i] : i \in DOMAIN index[h]}]

\* C25: after rebuild_index(name, records) on a registered index find_by_value
\* holds, for every value, exactly the keys of the records whose value hashes as
\* it does, each key once, and the second number of get_index_stats is the
\* number of records; a rebuild that follows a rebuild leaves the same buckets.
C25_Rebuild ==
    [][Calls("rebuild_index")
            => \A n \in DOMAIN indexes :
                   /\ IndexConsistent(n)'
                   /\ \A v \in Values :
                          Len(FindByValue(n, v)') = Cardinality(IndexedKeys(n, v)')
                   /\ GetIndexStats(n)'[2] = Cardinality(DOMAIN storage)
                   /\ op = "rebuild_index"
                        => BucketSets(indexes'[n]) = BucketSets(indexes[n])]_vars

C25_Witness ==
    /\ Returned("rebuild_index", "ok")
    /\ storage = [a |-> 1, b |-> 1]
    /\ "idx" \in DOMAIN indexes
    /\ DOMAIN indexes["idx"] = {HashValue(1)}
    /\ Len(indexes["idx"][HashValue(1)]) = 2

\* C26: verify_index_integrity(name) returns true for a registered index when
\* no persistence write has failed, and false for an unregistered name and when
\* the index file or its hash record is missing.
C26_IndexIntegrity ==
    (pc = "idle" /\ op = "verify_index_integrity") =>
        \A n \in IndexNames :
            /\ (n \in DOMAIN indexes /\ faults = 0) => res = "true"
            /\ \/ n \notin DOMAIN indexes
               \/ ~Exists(fs, IndexFile(n))
               \/ ~Exists(fs, HashPath(n))
               => res = "false"

C26_Witness ==
    /\ Returned("verify_index_integrity", "true")
    /\ "idx" \in DOMAIN indexes
    /\ Cardinality(DOMAIN indexes["idx"]) = 2

\* ------------------------------------------------------------------ claims: field queries

\* C27: what find_partial, find_range, find_multi and list_field_values return
\* for given field arguments, records and iteration order of the records is the
\* same for every state of the index map, whether or not it holds an index of
\* the name given and whatever the buckets of that index are.
C27_QueriesIgnoreIndex ==
    \A self \in IndexStates, n \in IndexNames \cup {"none"} :
        /\ op = "find_partial"
             => res = FindPartial(self, n, args[1], args[2], storage, args[3])
        /\ op = "find_range"
             => res = FindRange(self, n, args[1], args[2], args[3], storage, args[4])
        /\ op = "find_multi"
             => res = FindMulti(self, n, args[1], storage, args[2])
        /\ op = "list_field_values"
             => res = ListFieldValues(self, n, args[1], storage, args[2])

C27_Witness ==
    /\ op = "find_partial"
    /\ indexes = NoIndexes
    /\ args[1] = NameField
    /\ args[2] = "AN"
    /\ Len(res) = 2

\* the keys index n holds, none when no index has the name
KeysIn(ixs, n) ==
    IF n \in DOMAIN ixs
    THEN UNION {{ixs[n][h][i] : i \in DOMAIN ixs[n][h]} : h \in DOMAIN ixs[n]}
    ELSE {}

\* C28: right after create_index(name) the index is registered with no bucket,
\* find_by_value(name, v) is empty for every v and get_index_stats(name) is
\* (0, 0) whatever the store holds, and when no write failed the index file
\* holds the empty map and its hash record matches; a key gets into an index,
\* other than by the caller's own add_to_index, only in a rebuild_index.
C28_CreateNotRetroactive ==
    [][/\ Calls("create_index")
            => \A n \in IndexNames :
                   /\ n \in DOMAIN indexes'
                   /\ \A v \in Values : FindByValue(n, v)' = <<>>
                   /\ GetIndexStats(n)' = <<0, 0>>
                   /\ faults' = faults
                        => /\ Exists(fs', IndexFile(n))
                           /\ fs'[IndexFile(n)] = IndexJsonPretty(NoBuckets, <<>>)
                           /\ VerifyIndexIntegrity(n)'
       /\ \A n \in IndexNames :
              (op' # "add_to_index" /\ ~(KeysIn(indexes', n) \subseteq KeysIn(indexes, n)))
                  => op' = "rebuild_index"]_vars

C28_Witness ==
    /\ Returned("create_index", "ok")
    /\ storage = [a |-> 1, b |-> 2]
    /\ "idx" \in DOMAIN indexes
    /\ indexes["idx"] = NoBuckets
    /\ Exists(fs, IndexFile("idx"))
    /\ faults = 0

\* ------------------------------------------------------------------ claims: content digest

\* C29: after save_data_hash(f, create_data_hash(D)), verify_data_integrity(f, D')
\* returns true exactly when the record set D' equals D; it returns false when
\* no hash record exists.
C29_ContentDigest ==
    op = "verify_data_integrity"
        => IF Exists(fs, HashPath("data"))
           THEN (res = "true") <=> (args[1] = args[2])
           ELSE res = "false"

\* ------------------------------------------------------------------ claims: rename failure

\* the step in which fs::rename fails and save_to_file returns
RenameFails == pc = "rename" /\ pc' = "idle" /\ faults' # faults

\* the primary file is there or not as before, with the content it had
PrimaryKept ==
    /\ Exists(fs', Path) = Exists(fs, Path)
    /\ Exists(fs, Path) => fs'[Path] = fs[Path]

\* C30 as stated: when the rename of the temporary file over the primary path
\* fails, save returns the error, the temporary file is gone and the primary
\* file holds what it held.
C30_RenameFailure ==
    [][RenameFails
            => /\ res' = "err"
               /\ ~Exists(fs', TempPathOf(Path))
               /\ PrimaryKept]_vars

\* C30: when the rename fails, save returns the error and the primary file
\* holds what it held before the save, no earlier step of the save having
\* touched it; the temporary file is gone, or, when its removal fails as well,
\* it stays as it was written.
C30_RenameFailureBestEffort ==
    [][/\ RenameFails
            => /\ res' = "err"
               /\ PrimaryKept
               /\ ~Exists(fs', TempPathOf(Path)) \/ fs' = fs
       /\ (SaveStep /\ pc # "rename") => PrimaryKept]_vars

C30_Witness ==
    /\ pc = "idle"
    /\ res = "err"
    /\ failed_at = "rename"
    /\ ~Exists(fs, TempPathOf(Path))
    /\ PrimaryExists
    /\ FromStr(fs[Path]) # storage

\* ------------------------------------------------------------------ claims: repair failures

\* the steps of save_to_file at which a save can fail
SaveSteps == {"backup", "create", "write", "flush", "rename"}

\* C31: repair_file returns an error only when the save of the state it
\* adopted fails, a failure while it enumerates the backups included, and when
\* it returns Ok the store holds the content of a backup that parses or the
\* empty mapping.
C31_RepairErrors ==
    (pc = "idle" /\ op = "repair" /\ Persistent)
        => /\ res = "err" => failed_at \in SaveSteps
           /\ res = "ok"
                => \/ storage = EmptyMap
                   \/ \E ts \in BackupTimes(snap) :
                          /\ BackupParses(snap, ts)
                          /\ storage = FromStr(snap[BackupPath(ts)])

\* ------------------------------------------------------------------ claims: index persistence

\* an operation of the index that ends with save_index
IndexWrites == {"create_index", "add_to_index", "remove_from_index", "rebuild_index",
                "clear_index"}

\* the step of operation o on index n in which the save of the index failed
IndexSaveFails(o, n) ==
    /\ Calls(o)
    /\ faults' # faults
    /\ (o = "create_index" \/ n \in DOMAIN indexes)

\* C32: when the save of the index fails in create_index, add_to_index,
\* remove_from_index, rebuild_index or clear_index, the operation returns
\* normally with the bucket update applied in memory, and the index file, when
\* there is one, holds what it held or the new map in full; every one of these
\* operations whose save succeeds leaves the file and its hash record matching
\* the index in memory.
C32_BestEffortIndexSave ==
    [][\A n \in IndexNames :
           /\ \A o \in IndexWrites :
                  IndexSaveFails(o, n)
                      => /\ pc' = "idle" /\ res' = "ok"
                         /\ n \in DOMAIN indexes'
                         /\ o \in {"create_index", "clear_index"} => indexes'[n] = NoBuckets
                         /\ o = "add_to_index"
                              => indexes'[n] = Push(indexes[n], HashValue(args'[2]), args'[1])
                         /\ o = "remove_from_index"
                              => indexes'[n] = Unlink(indexes[n], HashValue(args'[2]), args'[1])
                         /\ o = "rebuild_index" => IndexConsistent(n)'
                         /\ Exists(fs', IndexFile(n))
                              => \/ /\ Exists(fs, IndexFile(n))
                                    /\ fs'[IndexFile(n)] = fs[IndexFile(n)]
                                 \/ fs'[IndexFile(n)]
                                        = IndexJsonPretty(indexes'[n], index_order'[n])
           /\ \A o \in IndexWrites :
                  (Calls(o) /\ faults' = faults /\ n \in DOMAIN indexes')
                      => /\ Exists(fs', IndexFile(n))
                         /\ fs'[IndexFile(n)] = IndexJsonPretty(indexes'[n], index_order'[n])
                         /\ VerifyIndexIntegrity(n)']_vars

C32_Witness ==
    /\ Returned("add_to_index", "ok")
    /\ faults = 1
    /\ "idx" \in DOMAIN indexes
    /\ indexes["idx"] # NoBuckets
    /\ Exists(fs, IndexFile("idx"))
    /\ fs[IndexFile("idx")] = IndexJsonPretty(NoBuckets, <<>>)

\* ------------------------------------------------------------------ claims: caller-driven maintenance

\* index n holds, under the hash of each value, exactly the keys whose record
\* hashes as that value, each once, and no other bucket: what rebuild_index
\* computes from the store
MatchesStore(n) ==
    /\ IndexConsistent(n)
    /\ \A h \in DOMAIN indexes[n] : Len(indexes[n][h]) = Cardinality(BucketSets(indexes[n])[h])
    /\ \A order \in Orders(DOMAIN storage) :
           BucketSets(indexes[n]) = BucketSets(Rebuilt(storage, order, Len(order)))

\* C33 as stated: with every mutation of the store paired with the index calls
\* from the creation of the index on, the index holds exactly the keys of the
\* store under the hashes of their values, each once.
C33_PairedIndexMatches ==
    \A n \in DOMAIN indexes : MatchesStore(n)

\* C33: an index created on an empty store, and an index just rebuilt, match
\* the store, and a mutation of the store paired with remove_from_index for the
\* old value and add_to_index for the new one keeps an index that matches the
\* store matching it.
C33_PairedKeepsMatch ==
    [][\A n \in IndexNames :
           /\ (Calls("create_index") /\ storage = EmptyMap) => MatchesStore(n)'
           /\ (Calls("rebuild_index") /\ n \in DOMAIN indexes) => MatchesStore(n)'
           /\ \A o \in Mutations :
                  (Calls(o) /\ n \in DOMAIN indexes /\ MatchesStore(n))
                      => n \in DOMAIN indexes' /\ MatchesStore(n)']_vars

C33_Witness ==
    /\ Returned("update", "true")
    /\ args = <<"a", 2>>
    /\ storage = [a |-> 2, b |-> 1]
    /\ "idx" \in DOMAIN indexes
    /\ MatchesStore("idx")

\* ------------------------------------------------------------------ claims: failed write-through

\* the mutation the running call was asked for is in the mapping
Applied(o) ==
    /\ o \in {"insert", "update"} => args[1] \in DOMAIN storage /\ storage[args[1]] = args[2]
    /\ o = "delete" => args[1] \notin DOMAIN storage
    /\ o = "clear" => storage = EmptyMap

\* C34: while and after the save of an insert, update, delete or clear fails,
\* the mutation stays applied in memory; the call returns the error and the
\* primary file holds what it held before the call, so that the file is behind
\* the mapping; a save that succeeds makes the file hold the mapping again.
C34_NoRollback ==
    [][\A o \in Mutations :
           /\ (SaveStep /\ op = o)
                  => /\ Applied(o)
                     /\ storage' = storage
                     /\ pc # "rename" => PrimaryKept
           /\ (SaveStep /\ op = o /\ pc' = "idle" /\ faults' # faults)
                  => /\ res' = "err"
                     /\ PrimaryKept
           /\ Completes(o)
                  => /\ Exists(fs', Path)
                     /\ FromStr(fs'[Path]) = storage']_vars

C34_Witness ==
    /\ Returned("insert", "err")
    /\ failed_at \in SaveSteps
    /\ PrimaryExists
    /\ args[1] \in DOMAIN storage
    /\ args[1] \notin DOMAIN FromStr(fs[Path])

\* ------------------------------------------------------------------ claims: repair and the primary file

\* what the primary file may hold when repair_file is called
PrimaryContents == TamperBytes \cup Serializations([a |-> 1]) \cup Serializations(EmptyMap)

\* C35: the mapping repair_file adopts is that of the newest backup that parses,
\* whatever the primary file holds and whether it exists, also when the primary
\* file is valid and holds the mapping in memory; with backups enabled the save
\* inside repair_file copies the primary file as it is into a new backup.
C35_RepairIgnoresPrimary ==
    [][/\ (Calls("repair") /\ Persistent /\ faults' = faults)
            => /\ storage' = RepairStorage(fs)
               /\ RepairChoice(fs) # 0
                    => storage' = FromStr(fs[BackupPath(RepairChoice(fs))])
               /\ RepairStorage(RemoveFile(fs, Path)) = RepairStorage(fs)
               /\ \A c \in PrimaryContents :
                      RepairStorage(WriteFile(fs, Path, c)) = RepairStorage(fs)
       /\ (pc = "backup" /\ op = "repair" /\ pc' = "create"
             /\ backup_enabled /\ Exists(fs, Path))
            => /\ Exists(fs', BackupPath(clock))
               /\ fs'[BackupPath(clock)] = fs[Path]]_vars

C35_Witness ==
    /\ Returned("repair", "ok")
    /\ tampers = 0
    /\ Exists(snap, Path)
    /\ IsObject(snap[Path])
    /\ RepairChoice(snap) # 0
    /\ storage = FromStr(snap[BackupPath(RepairChoice(snap))])
    /\ storage # FromStr(snap[Path])

\* ------------------------------------------------------------------ several stores on one path

\* the store instances opened on Path, each with its own mapping in memory
Writers == {1, 2}
MaxSaves == 2

\* where a file that is no longer linked under a name lives
Orphan == "(unlinked)"

\* the mappings an instance may hold
WriterMaps == UNION {[D -> Values] : D \in SUBSET Keys}

\* every complete serialization of some mapping
Complete == UNION {Serializations(m) : m \in WriterMaps}

\* a write of c at offset 0 of a file holding old: nothing truncates the file
Overlay(old, c) ==
    IF Len(old) > Len(c) THEN c \o SubSeq(old, Len(c) + 1, Len(old)) ELSE c

\* a write through an open handle reaches the file the handle was opened on,
\* under whatever name it has now
WriteThrough(f, h, c) ==
    IF Exists(f, h) THEN WriteFile(f, h, Overlay(f[h], c)) ELSE f

\* the variables of the single-store model, which stay as they are
WriterFrame ==
    UNCHANGED <<storage, persistence_file, auto_save, backup_enabled, clock, pc,
                op, res, json_data, last_saved, snap, tampers, hash_writes, ops,
                faults, indexes, index_order, failed_at, args>>

\* one instance after a step that changes its fields to r
Stepped(w, r) == writers' = [writers EXCEPT ![w] = r]

\* insert on instance w: the mapping changes in memory, then save_to_file runs
WInsert(w, k, v) ==
    /\ writers[w].pc = "idle"
    /\ writers[w].calls < MaxSaves
    /\ Stepped(w, [writers[w] EXCEPT !.storage = Put(@, k, v),
                                     !.pc = "create",
                                     !.calls = @ + 1])
    /\ UNCHANGED fs
    /\ WriterFrame

\* serde_json::to_string_pretty, then File::create(&temp_path): the file under
\* the temporary name is truncated in place when it exists
WCreateTemp(w) ==
    /\ writers[w].pc = "create"
    /\ \E c \in Serializations(writers[w].storage) :
          Stepped(w, [writers[w] EXCEPT !.json_data = c,
                                        !.handle = TempPathOf(Path),
                                        !.buffered = TRUE,
                                        !.pc = "write"])
    /\ fs' = WriteFile(fs, TempPathOf(Path), <<>>)
    /\ WriterFrame

\* writer.write_all: the BufWriter keeps the data or hands it to the file
WWriteAll(w) ==
    /\ writers[w].pc = "write"
    /\ \/ /\ fs' = fs
          /\ Stepped(w, [writers[w] EXCEPT !.pc = "flush"])
       \/ /\ fs' = WriteThrough(fs, writers[w].handle, writers[w].json_data)
          /\ Stepped(w, [writers[w] EXCEPT !.pc = "flush", !.buffered = FALSE])
    /\ WriterFrame

\* a flush that loses what the BufWriter holds
WFlushDrops(w) ==
    /\ writers[w].pc = "flush"
    /\ fs' = fs
    /\ Stepped(w, [writers[w] EXCEPT !.pc = "rename",
                                     !.buffered = FALSE,
                                     !.handle = NoPath])
    /\ WriterFrame

\* writer.flush(), then the BufWriter and its file are dropped
WFlush(w) ==
    /\ writers[w].pc = "flush"
    /\ fs' = IF writers[w].buffered
             THEN WriteThrough(fs, writers[w].handle, writers[w].json_data)
             ELSE fs
    /\ Stepped(w, [writers[w] EXCEPT !.pc = "rename",
                                     !.buffered = FALSE,
                                     !.handle = NoPath])
    /\ WriterFrame

\* the name a handle's file has after the temporary file was renamed to Path
Renamed(h) ==
    IF h = TempPathOf(Path) THEN Path
    ELSE IF h = Path THEN Orphan
    ELSE h

\* fs::rename(&temp_path, path): fails when another instance has already renamed
\* the temporary file away; the handles other instances hold follow their files
WRename(w) ==
    /\ writers[w].pc = "rename"
    /\ IF Exists(fs, TempPathOf(Path))
       THEN /\ fs' = RenameFile(fs, TempPathOf(Path), Path)
            /\ writers' = [u \in Writers |->
                  IF u = w
                  THEN [writers[u] EXCEPT !.pc = "idle",
                                          !.res = "ok",
                                          !.published = fs[TempPathOf(Path)]]
                  ELSE [writers[u] EXCEPT !.handle = Renamed(@)]]
       ELSE /\ fs' = fs
            /\ Stepped(w, [writers[w] EXCEPT !.pc = "idle", !.res = "err"])
    /\ WriterFrame

WritersInit ==
    /\ writers = [w \in Writers |->
                    [storage |-> EmptyMap, pc |-> "idle", json_data |-> <<>>,
                     handle |-> NoPath, buffered |-> FALSE, res |-> "ok",
                     published |-> <<>>, calls |-> 0]]
    /\ storage = EmptyMap
    /\ persistence_file = Path
    /\ auto_save = TRUE
    /\ backup_enabled = FALSE
    /\ fs = NoFiles
    /\ clock = 1
    /\ pc = "idle"
    /\ op = "new"
    /\ res = "ok"
    /\ json_data = <<>>
    /\ last_saved = NeverSaved
    /\ snap = NoFiles
    /\ tampers = 0
    /\ hash_writes = 0
    /\ ops = 0
    /\ faults = 0
    /\ indexes = NoIndexes
    /\ index_order = NoIndexes
    /\ failed_at = ""
    /\ args = NoArgs

WritersNext ==
    \/ \E w \in Writers, k \in Keys, v \in Values : WInsert(w, k, v)
    \/ \E w \in Writers : WCreateTemp(w)
    \/ \E w \in Writers : WWriteAll(w)
    \/ \E w \in Writers : WFlush(w)
    \/ \E w \in Writers : WRename(w)

WritersSpec == WritersInit /\ [][WritersNext]_vars

\* no other instance has ever started a save
Alone(w) == \A u \in Writers \ {w} : writers[u].calls = 0

\* instance w's last save returned Ok
Saved(w) == writers[w].pc = "idle" /\ writers[w].calls > 0 /\ writers[w].res = "ok"

\* the primary file holds something that is not a complete serialization
Torn == PrimaryExists /\ fs[Path] \notin Complete

\* C36: all instances on a path save through the same temporary path; while only
\* one instance saves, the primary file always holds a complete serialization,
\* every save returns Ok and leaves the saving instance's own mapping there.
\* With two instances saving, a torn primary file is reachable (C36_Witness), and
\* so is a rename that published the other instance's content (C36_WitnessForeign).
C36_SingleWriterAtomic ==
    \A w \in Writers :
        Alone(w) =>
            /\ ~Torn
            /\ writers[w].pc = "idle" => writers[w].res = "ok"
            /\ Saved(w) => /\ PrimaryExists
                           /\ fs[Path] \in Serializations(writers[w].storage)
                           /\ writers[w].published = fs[Path]

C36_Witness ==
    /\ Torn
    /\ \A w \in Writers : writers[w].calls > 0
    /\ \E w \in Writers : Saved(w)

C36_WitnessForeign ==
    \E w \in Writers :
        /\ Saved(w)
        /\ writers[w].published \in Complete
        /\ writers[w].published \notin Serializations(writers[w].storage)
        /\ \E u \in Writers \ {w} :
              writers[w].published \in Serializations(writers[u].storage)

\* with two instances a save may also return Err although nothing failed
C36_WitnessLostRename ==
    \E w \in Writers : writers[w].pc = "idle" /\ writers[w].res = "err"

\* ------------------------------------------------------------------ the backup comes first

\* the temporary file is there or not as before, with the content it had
TempKept ==
    /\ Exists(fs', TempPathOf(Path)) = Exists(fs, TempPathOf(Path))
    /\ Exists(fs, TempPathOf(Path)) => fs'[TempPathOf(Path)] = fs[TempPathOf(Path)]

\* every backup file there is stays, with the content it had
BackupsKept ==
    \A ts \in 1..MaxClock :
        Exists(fs, BackupPath(ts))
            => /\ Exists(fs', BackupPath(ts))
               /\ fs'[BackupPath(ts)] = fs[BackupPath(ts)]

\* C37: when the backup copy fails, the save and the operation that started it
\* return the error, the primary file is as it was and no temporary file was
\* created or written; a backup copy that succeeds is there before anything is
\* serialized or written to the temporary file, and no later step of a save,
\* failing or not, removes or changes a backup.
C37_BackupFirst ==
    [][/\ (pc = "backup" /\ pc' = "idle")
            => /\ faults' # faults
               /\ backup_enabled /\ Exists(fs, Path)
               /\ res' = "err" /\ op' = op
               /\ storage' = storage
               /\ PrimaryKept
               /\ TempKept
       /\ (pc = "backup" /\ pc' = "create" /\ backup_enabled /\ Exists(fs, Path))
            => /\ Exists(fs', BackupPath(clock))
               /\ fs'[BackupPath(clock)] = fs[Path]
               /\ json_data = <<>> /\ json_data' = <<>>
               /\ PrimaryKept
               /\ TempKept
       /\ (SaveStep /\ pc \in SaveSteps \ {"backup"}) => BackupsKept]_vars

\* a mutation whose backup copy failed, with no temporary file on disk
C37_Witness ==
    /\ pc = "idle" /\ op \in Mutations /\ res = "err"
    /\ failed_at = "backup"
    /\ PrimaryExists
    /\ ~Exists(fs, TempPathOf(Path))

\* the second call saved over the file of the first, made its backup and then
\* failed at a later step: the backup is there
C37_WitnessLater ==
    /\ pc = "idle" /\ op \in Mutations /\ res = "err"
    /\ ops = 2 /\ tampers = 0
    /\ failed_at \in SaveSteps \ {"backup"}
    /\ \E ts \in 1..MaxClock : Exists(fs, BackupPath(ts))

\* ------------------------------------------------------------------ negative results on disk

\* C38: update of an absent key returns false at once, with no step of a save:
\* no file is created or changed; delete of an absent key, with auto-save on and
\* a persistence path, starts save_to_file with the mapping unchanged, and that
\* save makes its backup and leaves a serialization of the mapping in the
\* primary file like any other, so it can fail with an I/O error.
C38_AbsentKeyOnDisk ==
    [][/\ (Calls("update") /\ args'[1] \notin DOMAIN storage)
            => /\ pc' = "idle" /\ res' = "false"
               /\ storage' = storage
               /\ fs' = fs
       /\ (Calls("delete") /\ args'[1] \notin DOMAIN storage)
            => /\ storage' = storage
               /\ fs' = fs
               /\ IF ShouldAutoSave
                  THEN pc' = "backup" /\ res' = "pending"
                  ELSE pc' = "idle" /\ res' = "ok"
       /\ (pc = "backup" /\ op = "delete" /\ pc' = "create"
             /\ backup_enabled /\ Exists(fs, Path))
            => /\ Exists(fs', BackupPath(clock))
               /\ fs'[BackupPath(clock)] = fs[Path]
       /\ Completes("delete")
            => /\ res' = "ok"
               /\ Exists(fs', Path)
               /\ fs'[Path] \in Serializations(storage)]_vars

\* the first call was a delete on the empty store, and it returned an I/O error
C38_Witness ==
    /\ Returned("delete", "err")
    /\ ops = 1
    /\ storage = EmptyMap
    /\ failed_at \in SaveSteps

\* after one call that left key a, a delete of b rewrote the primary file and
\* made a backup
C38_WitnessBackup ==
    /\ Returned("delete", "ok")
    /\ ops = 2 /\ tampers = 0
    /\ args[1] = "b"
    /\ "a" \in DOMAIN storage
    /\ PrimaryExists /\ fs[Path] \in Serializations(storage)
    /\ \E ts \in 1..MaxClock :
          Exists(fs, BackupPath(ts)) /\ fs[BackupPath(ts)] = fs[Path]

\* ------------------------------------------------------------------ repeated index entries

\* how many times key k occurs in a list of keys
Occurrences(keys, k) == Len(SelectSeq(keys, LAMBDA x : x = k))

\* C39: every add_to_index(n, k, v) on an existing index appends k to the bucket
\* of hash(v), also when k is already there: find_by_value(n, v) returns k once
\* more and total_entry_count grows by one; remove_from_index(n, k, v) leaves no
\* occurrence of k in that bucket and keeps the other keys of the bucket, and it
\* leaves every other bucket, those that hold k included, as it was.
C39_NoDeduplication ==
    [][\A n \in IndexNames, k \in Keys, v \in Values :
          /\ (Calls("add_to_index") /\ args' = <<k, v>> /\ n \in DOMAIN indexes)
                => /\ FindByValue(n, v)' = Append(FindByValue(n, v), k)
                   /\ Occurrences(FindByValue(n, v)', k)
                        = Occurrences(FindByValue(n, v), k) + 1
                   /\ GetIndexStats(n)'[2] = GetIndexStats(n)[2] + 1
                   /\ \A u \in Values \ {v} : FindByValue(n, u)' = FindByValue(n, u)
          /\ (Calls("remove_from_index") /\ args' = <<k, v>> /\ n \in DOMAIN indexes)
                => /\ Occurrences(FindByValue(n, v)', k) = 0
                   /\ FindByValue(n, v)' = Retain(FindByValue(n, v), k)
                   /\ GetIndexStats(n)'[2]
                        = GetIndexStats(n)[2] - Occurrences(FindByValue(n, v), k)
                   /\ \A u \in Values \ {v} :
                         FindByValue(n, u)' = FindByValue(n, u)]_vars

\* add_to_index has put a key into a bucket that held it already
C39_Witness ==
    /\ pc = "idle" /\ op = "add_to_index"
    /\ \E n \in IndexNames :
          /\ n \in DOMAIN indexes
          /\ Occurrences(FindByValue(n, args[2]), args[1]) >= 2
          /\ GetIndexStats(n)[2] >= 2

\* remove_from_index(n, k, v) has acted and k is still in the bucket of another
\* value
C39_WitnessOtherBucket ==
    /\ pc = "idle" /\ op = "remove_from_index"
    /\ \E n \in IndexNames :
          /\ n \in DOMAIN indexes
          /\ Occurrences(FindByValue(n, args[2]), args[1]) = 0
          /\ \E u \in Values \ {args[2]} :
                Occurrences(FindByValue(n, u), args[1]) > 0

\* ------------------------------------------------------------------ one namespace of hash records

\* the names under which data hashes are saved: that of the index, and another
DataNames == IndexNames \cup {"data"}

\* save_data_hash(filename, &create_data_hash(&storage)) by a program whose store
\* is in memory: fs::write puts the record there or fails
SaveDataHashFor(filename) ==
    /\ Call
    /\ args' = <<filename, 0>>
    /\ hash_writes' = hash_writes + 1
    /\ \/ /\ NoFault
          /\ fs' = WriteFile(fs, HashPath(filename), CreateDataHash(storage))
       \/ /\ Fault
          /\ fs' = fs
    /\ Done("save_data_hash", "none")
    /\ snap' = NoFiles
    /\ UNCHANGED <<storage, persistence_file, auto_save, backup_enabled, clock,
                   last_saved, tampers, writers, indexes, index_order>>

\* verify_data_integrity(filename, &storage)
VerifyData(filename) ==
    /\ Call
    /\ args' = <<filename, 0>>
    /\ NoFault
    /\ Done("verify_data_integrity",
            IF VerifyDataIntegrity(filename, storage) THEN "true" ELSE "false")
    /\ snap' = NoFiles
    /\ UNCHANGED <<indexes, index_order, fs>>
    /\ IndexFrame

NamespaceNext ==
    \/ \E k \in Keys, v \in Values : Insert(k, v)
    \/ \E n \in IndexNames : CreateIndex(n)
    \/ \E n \in IndexNames, k \in Keys, v \in Values : AddToIndex(n, k, v)
    \/ \E f \in DataNames : SaveDataHashFor(f)
    \/ \E f \in DataNames : VerifyData(f)
    \/ \E n \in IndexNames : VerifyIndex(n)

NamespaceInit ==
    /\ Init
    /\ persistence_file = NoPath

NamespaceSpec == NamespaceInit /\ [][NamespaceNext]_vars

\* operation o saved the index n
IndexSaved(o, n) == Calls(o) /\ faults' = faults /\ n \in DOMAIN indexes'

\* save_data_hash wrote the record of name f
DataHashSaved(f) == Calls("save_data_hash") /\ faults' = faults /\ args'[1] = f

\* C40: the hash record of index n and the data hash record saved under the name
\* n are one file. A save of index n replaces a data record that matched the
\* mapping, so verify_data_integrity(n, mapping) turns false with the mapping
\* unchanged; save_data_hash(n, ..) replaces the record of an index that
\* verified, so verify_index_integrity(n) turns false with the index unchanged.
\* Under a name other than n each save leaves the other kind's record and its
\* verification as they were.
C40_SharedHashNamespace ==
    [][\A n \in IndexNames :
          /\ \A o \in IndexWrites :
                IndexSaved(o, n)
                    => /\ storage' = storage
                       /\ ~VerifyDataIntegrity(n, storage)'
                       /\ VerifyIndexIntegrity(n)'
                       /\ \A f \in DataNames \ {n} :
                             /\ Exists(fs', HashPath(f)) = Exists(fs, HashPath(f))
                             /\ Exists(fs, HashPath(f)) => fs'[HashPath(f)] = fs[HashPath(f)]
                             /\ VerifyDataIntegrity(f, storage)'
                                  = VerifyDataIntegrity(f, storage)
          /\ DataHashSaved(n)
                => /\ indexes' = indexes /\ index_order' = index_order
                   /\ VerifyDataIntegrity(n, storage)'
                   /\ ~VerifyIndexIntegrity(n)'
          /\ \A f \in DataNames \ {n} :
                DataHashSaved(f)
                    => /\ VerifyDataIntegrity(f, storage)'
                       /\ VerifyIndexIntegrity(n)' = VerifyIndexIntegrity(n)]_vars

\* save_data_hash("idx"), then create_index("idx"), then verify_data_integrity
\* of the same mapping under "idx" returned false
C40_Witness ==
    /\ Returned("verify_data_integrity", "false")
    /\ args[1] = "idx"
    /\ ops = 3 /\ hash_writes = 1 /\ faults = 0
    /\ storage = EmptyMap
    /\ VerifyIndexIntegrity("idx")

\* create_index("idx"), then save_data_hash("idx"), then verify_index_integrity
\* of the unchanged index returned false
C40_WitnessReverse ==
    /\ Returned("verify_index_integrity", "false")
    /\ ops = 3 /\ hash_writes = 1 /\ faults = 0
    /\ "idx" \in DOMAIN indexes
    /\ indexes["idx"] = NoBuckets
    /\ Exists(fs, IndexFile("idx"))
    /\ VerifyDataIntegrity("idx", storage)

\* under another name the data record and the index record both verify
C40_WitnessApart ==
    /\ Returned("verify_data_integrity", "true")
    /\ args[1] = "data"
    /\ hash_writes = 1
    /\ VerifyIndexIntegrity("idx")

====
